---- MODULE Spec2Model ----
(***************************************************************************)
(* A model of the expression engine and the schema-driven template         *)
(* evaluator of act-cli:                                                   *)
(*   internal/eval/v2        value model, coercion, evaluator              *)
(*   internal/templateeval   document (YAML tree) evaluator                *)
(*   pkg/schema              schema validation of expressions              *)
(*                                                                         *)
(* Strings are sequences of one-character strings, so that case folding,   *)
(* number parsing and formatting are computed character by character.      *)
(* Numbers are the IEEE doubles that are small integers, plus NaN.         *)
(***************************************************************************)
EXTENDS Integers, Sequences, FiniteSets, TLC

VARIABLES
    pc,       \* position of the driver of the operation under study
    left,     \* abstractEqual: left operand (canonical value)
    right,    \* abstractEqual: right operand (canonical value)
    equal,    \* result of the last comparison: [eq |-> .., ne |-> ..]
    root,     \* Evaluator.Evaluate: the parse tree handed in
    ctx,      \* Evaluator.ctx: the EvaluationContext
    result,   \* outcome of the last Evaluate call
    doc,         \* templateeval: the document (yaml.Node tree)
    schemaNode,  \* templateeval: the schema.Node the document is evaluated under
    evaluator,   \* templateeval: the ExpressionEvaluator (RestrictEval, context)
    outcome,     \* templateeval: outcome of the last EvaluateYamlNode call
    before,      \* templateeval: the document as it was before the current pass
    checkedExpr, \* schema: expression handed to checkSingleExpression
    checkNode,   \* schema: the schema.Node that checks the expression
    checkErrors  \* schema: outcome of the last checkSingleExpression call

vars == <<pc, left, right, equal, root, ctx, result, doc, schemaNode, evaluator, outcome,
          before, checkedExpr, checkNode, checkErrors>>

-----------------------------------------------------------------------------
(* Bounds of the model *)

\* longest string operand drawn for a comparison
MaxStrLen == 2

-----------------------------------------------------------------------------
(* Sequences and characters *)

RECURSIVE SeqsUpTo(_, _)
SeqsUpTo(S, n) ==
    IF n = 0 THEN {<<>>}
    ELSE LET shorter == SeqsUpTo(S, n - 1)
         IN  shorter \cup {Append(s, c) : s \in shorter, c \in S}

\* every enumeration order of a finite set (Go iterates a map in any order)
RECURSIVE Perms(_)
Perms(S) ==
    IF S = {} THEN {<<>>}
    ELSE UNION {{<<x>> \o p : p \in Perms(S \ {x})} : x \in S}

\* unicode simple case folding, on the ASCII letters
FoldChar(c) ==
    CASE c = "A" -> "a" [] c = "B" -> "b" [] c = "C" -> "c" [] c = "D" -> "d"
      [] c = "E" -> "e" [] c = "F" -> "f" [] c = "G" -> "g" [] c = "H" -> "h"
      [] c = "I" -> "i" [] c = "J" -> "j" [] c = "K" -> "k" [] c = "L" -> "l"
      [] c = "M" -> "m" [] c = "N" -> "n" [] c = "O" -> "o" [] c = "P" -> "p"
      [] c = "Q" -> "q" [] c = "R" -> "r" [] c = "S" -> "s" [] c = "T" -> "t"
      [] c = "U" -> "u" [] c = "V" -> "v" [] c = "W" -> "w" [] c = "X" -> "x"
      [] c = "Y" -> "y" [] c = "Z" -> "z" [] OTHER -> c

\* strings.EqualFold
EqualFold(s, t) ==
    /\ Len(s) = Len(t)
    /\ \A i \in 1..Len(s) : FoldChar(s[i]) = FoldChar(t[i])

\* byte value of the characters the model compares by order
CharCode(c) ==
    CASE c = "0" -> 48 [] c = "1" -> 49 [] c = "A" -> 65 [] c = "X" -> 88
      [] c = "a" -> 97 [] c = "b" -> 98 [] c = "x" -> 120 [] OTHER -> 127

\* strings.Compare: -1, 0, 1 by byte-wise lexicographic order
RECURSIVE StringsCompare(_, _)
StringsCompare(s, t) ==
    IF s = <<>> /\ t = <<>> THEN 0
    ELSE IF s = <<>> THEN -1
    ELSE IF t = <<>> THEN 1
    ELSE IF CharCode(Head(s)) < CharCode(Head(t)) THEN -1
    ELSE IF CharCode(Head(s)) > CharCode(Head(t)) THEN 1
    ELSE StringsCompare(Tail(s), Tail(t))

\* the keys of a map in the order yaml writes them
RECURSIVE SortedKeys(_)
SortedKeys(keys) ==
    IF keys = {} THEN <<>>
    ELSE LET first == CHOOSE k \in keys : \A o \in keys : StringsCompare(k, o) <= 0
         IN  <<first>> \o SortedKeys(keys \ {first})

\* strconv of a number of the model, as yaml writes it
RECURSIVE Digits(_)
Digits(n) ==
    IF n < 0 THEN <<"-">> \o Digits(-n)
    ELSE IF n < 10 THEN <<(<<"0", "1", "2", "3", "4", "5", "6", "7", "8", "9">>)[n + 1]>>
    ELSE Digits(n \div 10) \o Digits(n % 10)

-----------------------------------------------------------------------------
(* Canonical values: evaluation_result.go *)

Null        == [k |-> "null"]
Bool(b)     == [k |-> "bool", b |-> b]
Num(n)      == [k |-> "num", nan |-> FALSE, n |-> n]
NaN         == [k |-> "num", nan |-> TRUE, n |-> 0]
Str(s)      == [k |-> "str", s |-> s]
\* BasicArray
Arr(items)  == [k |-> "arr", items |-> items]
\* CaseInsensitiveObject: a Go map, keys are strings
Obj(m)      == [k |-> "obj", m |-> m]
\* FilteredArray
Filtered(items) == [k |-> "filtered", items |-> items]

IsNaNValue(v) == v.k = "num" /\ v.nan

\* convertToCanonicalValue: the ValueKind stored in an EvaluationResult
ValueKind(v) ==
    CASE v.k = "null" -> "Null"
      [] v.k = "bool" -> "Boolean"
      [] v.k = "num" -> "Number"
      [] v.k = "str" -> "String"
      [] v.k = "arr" -> "Array"
      [] v.k = "filtered" -> "Array"
      [] v.k = "obj" -> "Object"

\* getKind: every canonical collection (BasicArray, FilteredArray,
\* CaseInsensitiveObject) is a named type and falls to the default case
getKind(v) ==
    CASE v.k = "null" -> "Null"
      [] v.k = "bool" -> "Boolean"
      [] v.k = "num" -> "Number"
      [] v.k = "str" -> "String"
      [] OTHER -> "Object"

IsFalsy(v) ==
    CASE v.k = "null" -> TRUE
      [] v.k = "bool" -> ~v.b
      [] v.k = "num" -> v.nan \/ v.n = 0
      [] v.k = "str" -> v.s = <<>>
      [] OTHER -> FALSE

IsTruthy(v) == ~IsFalsy(v)

-----------------------------------------------------------------------------
(* Coercion and abstract equality: evaluation_result.go *)

DecDigit(c) == CASE c = "0" -> 0 [] c = "1" -> 1 [] OTHER -> -1

HexDigit(c) ==
    CASE c = "0" -> 0 [] c = "1" -> 1 [] c = "a" -> 10 [] c = "A" -> 10
      [] c = "b" -> 11 [] OTHER -> -1

\* value of a digit string in the given base, most significant digit first
RECURSIVE DigitsValue(_, _, _)
DigitsValue(s, base, acc) ==
    IF s = <<>> THEN acc
    ELSE DigitsValue(Tail(s), base,
                     acc * base + (IF base = 16 THEN HexDigit(Head(s))
                                                ELSE DecDigit(Head(s))))

\* largest value strconv.ParseInt(_, 0, 32) accepts
MaxInt32 == 2147483647

\* strconv.ParseInt(val, 0, 32) of a string that starts with 0x:
\* <<TRUE, value>> or <<FALSE, 0>> when it returns an error
ParseHexInt(val) ==
    LET digits == SubSeq(val, 3, Len(val))
    IN  IF /\ digits # <<>>
           /\ \A i \in 1..Len(digits) : HexDigit(digits[i]) >= 0
           /\ Len(digits) <= 7
           /\ DigitsValue(digits, 16, 0) <= MaxInt32
        THEN <<TRUE, DigitsValue(digits, 16, 0)>>
        ELSE <<FALSE, 0>>

\* strconv.ParseFloat(val, 64) on the strings of the model: a decimal
\* digit string parses, everything else over Chars is a syntax error
ParseFloat(val) ==
    IF val # <<>> /\ \A i \in 1..Len(val) : DecDigit(val[i]) >= 0
    THEN <<TRUE, DigitsValue(val, 10, 0)>>
    ELSE <<FALSE, 0>>

\* convertToNumber
convertToNumber(v) ==
    CASE v.k = "null" -> Num(0)
      [] v.k = "bool" -> IF v.b THEN Num(1) ELSE Num(0)
      [] v.k = "num" -> v
      [] v.k = "str" ->
            IF v.s = <<>> THEN Num(0)
            ELSE IF /\ Len(v.s) > 2
                    /\ SubSeq(v.s, 1, 2) = <<"0", "x">>
                    /\ ParseHexInt(v.s)[1]
                 THEN Num(ParseHexInt(v.s)[2])
            ELSE IF ParseFloat(v.s)[1] THEN Num(ParseFloat(v.s)[2])
            ELSE NaN
      [] OTHER -> NaN

\* a coercion that turns a string on the right into a number and forgets
\* the string on the left
RECURSIVE coerceTypesOneWay(_, _)
coerceTypesOneWay(l, r) ==
    LET lk == getKind(l)
        rk == getKind(r)
    IN  IF lk = rk THEN <<l, r, lk, rk>>
        ELSE IF lk = "Number" /\ rk = "String"
             THEN <<l, convertToNumber(r), lk, "Number">>
        ELSE IF lk \in {"Boolean", "Null"}
             THEN coerceTypesOneWay(convertToNumber(l), r)
        ELSE IF rk \in {"Boolean", "Null"}
             THEN coerceTypesOneWay(l, convertToNumber(r))
        ELSE <<l, r, lk, rk>>

\* a comparison that looks only at the kinds and forgets to restart
coerceTypesNoRestart(l, r) ==
    LET lk == getKind(l)
        rk == getKind(r)
    IN  IF lk = rk THEN <<l, r, lk, rk>>
        ELSE IF lk = "Number" /\ rk = "String"
             THEN <<l, convertToNumber(r), lk, "Number">>
        ELSE IF lk = "String" /\ rk = "Number"
             THEN <<convertToNumber(l), r, "Number", rk>>
        ELSE IF lk \in {"Boolean", "Null"}
             THEN <<convertToNumber(l), r, "Number", rk>>
        ELSE IF rk \in {"Boolean", "Null"}
             THEN <<l, convertToNumber(r), lk, "Number">>
        ELSE <<l, r, lk, rk>>

\* coerceTypes: <<left, right, leftKind, rightKind>>
RECURSIVE coerceTypes(_, _)
coerceTypes(l, r) ==
    LET lk == getKind(l)
        rk == getKind(r)
    IN  IF lk = rk THEN <<l, r, lk, rk>>
        ELSE IF lk = "Number" /\ rk = "String"
             THEN <<l, convertToNumber(r), lk, "Number">>
        ELSE IF lk = "String" /\ rk = "Number"
             THEN <<convertToNumber(l), r, "Number", rk>>
        ELSE IF lk \in {"Boolean", "Null"}
             THEN coerceTypes(convertToNumber(l), r)
        ELSE IF rk \in {"Boolean", "Null"}
             THEN coerceTypes(l, convertToNumber(r))
        ELSE <<l, r, lk, rk>>

\* abstractEqual
abstractEqual(l, r) ==
    LET c == coerceTypes(l, r)
    IN  IF c[3] # c[4] THEN FALSE
        ELSE CASE c[3] = "Null" -> TRUE
               [] c[3] = "Number" ->
                     IF c[1].nan \/ c[2].nan THEN FALSE ELSE c[1].n = c[2].n
               [] c[3] = "String" -> EqualFold(c[1].s, c[2].s)
               [] c[3] = "Boolean" -> c[1].b = c[2].b
               [] OTHER -> FALSE

\* abstractGreaterThan
abstractGreaterThan(l, r) ==
    LET c == coerceTypes(l, r)
    IN  IF c[3] # c[4] THEN FALSE
        ELSE CASE c[3] = "Number" ->
                     IF c[1].nan \/ c[2].nan THEN FALSE ELSE c[1].n > c[2].n
               [] c[3] = "String" -> StringsCompare(c[1].s, c[2].s) > 0
               [] c[3] = "Boolean" -> c[1].b /\ ~c[2].b
               [] OTHER -> FALSE

\* abstractLessThan
abstractLessThan(l, r) ==
    LET c == coerceTypes(l, r)
    IN  IF c[3] # c[4] THEN FALSE
        ELSE CASE c[3] = "Number" ->
                     IF c[1].nan \/ c[2].nan THEN FALSE ELSE c[1].n < c[2].n
               [] c[3] = "String" -> StringsCompare(c[1].s, c[2].s) < 0
               [] c[3] = "Boolean" -> ~c[1].b /\ c[2].b
               [] OTHER -> FALSE

\* EvaluationResult.AbstractEqual / AbstractNotEqual / ...OrEqual
AbstractEqual(l, r) == abstractEqual(l, r)
AbstractNotEqual(l, r) == ~AbstractEqual(l, r)
AbstractGreaterThan(l, r) == abstractGreaterThan(l, r)
AbstractLessThan(l, r) == abstractLessThan(l, r)
AbstractGreaterThanOrEqual(l, r) == AbstractEqual(l, r) \/ AbstractGreaterThan(l, r)
AbstractLessThanOrEqual(l, r) == AbstractEqual(l, r) \/ AbstractLessThan(l, r)

-----------------------------------------------------------------------------
(* The operands the comparison is driven with *)

Chars == {"0", "1", "a", "A", "x"}

Numbers == {-1, 0, 1, 10, 11}

keyA == <<"a">>
keyB == <<"b">>
keyUpperA == <<"A">>

Primitives ==
    {Null, Bool(TRUE), Bool(FALSE), NaN}
        \cup {Num(n) : n \in Numbers}
        \cup {Str(s) : s \in SeqsUpTo(Chars, MaxStrLen)}
        \cup {Str(<<"0", "x", "1">>), Str(<<"0", "x", "a">>), Str(<<"0", "x", "x">>)}

Collections ==
    {Arr(<<>>), Arr(<<Num(1)>>), Obj(<<>>), Obj(keyA :> Num(1)),
     Filtered(<<>>), Filtered(<<Num(1)>>)}

CanonicalValues == Primitives \cup Collections

NoResult == [st |-> "none"]

Idle == "idle"

-----------------------------------------------------------------------------
(* Specification SpecEqual: `left == right` and `left != right` *)

InitEqual ==
    /\ pc = "compare"
    /\ left \in CanonicalValues
    /\ right \in CanonicalValues
    /\ equal = NoResult
    /\ root = Idle /\ ctx = Idle /\ result = Idle
    /\ doc = Idle /\ schemaNode = Idle /\ evaluator = Idle /\ outcome = Idle /\ before = Idle
    /\ checkedExpr = Idle /\ checkNode = Idle /\ checkErrors = Idle

\* evalNode, cases "==" and "!=" on two evaluated operands
Compare ==
    /\ pc = "compare"
    /\ equal' = [st |-> "ok",
                 eq |-> AbstractEqual(left, right),
                 ne |-> AbstractNotEqual(left, right)]
    /\ pc' = "done"
    /\ UNCHANGED <<left, right, root, ctx, result, doc, schemaNode, evaluator, outcome,
                   before, checkedExpr, checkNode, checkErrors>>

NextEqual == Compare

SpecEqual == InitEqual /\ [][NextEqual]_vars

-----------------------------------------------------------------------------
(* C2: the coercion table of `==` and `!=` *)

C2IsCollection(v) == v.k \in {"arr", "obj", "filtered"}

\* the number a boolean or null operand stands for
C2AsNumber(v) ==
    CASE v.k = "null" -> Num(0)
      [] v.k = "bool" -> (IF v.b THEN Num(1) ELSE Num(0))
      [] OTHER -> v

C2NumbersEqual(a, b) == ~a.nan /\ ~b.nan /\ a.n = b.n

\* the table, written out row by row
C2Table(l, r) ==
    IF C2IsCollection(l) \/ C2IsCollection(r) THEN FALSE
    ELSE IF l.k = r.k
         THEN CASE l.k = "null" -> TRUE
                [] l.k = "bool" -> l.b = r.b
                [] l.k = "num" -> C2NumbersEqual(l, r)
                [] l.k = "str" -> EqualFold(l.s, r.s)
    ELSE LET a == C2AsNumber(l)
             b == C2AsNumber(r)
         IN  CASE a.k = "num" /\ b.k = "num" -> C2NumbersEqual(a, b)
               [] a.k = "num" /\ b.k = "str" ->
                     C2NumbersEqual(a, IF b.s = <<>> THEN Num(0)
                                                    ELSE convertToNumber(b))
               [] a.k = "str" /\ b.k = "num" ->
                     C2NumbersEqual(IF a.s = <<>> THEN Num(0)
                                                  ELSE convertToNumber(a), b)

\* C2: for every pair of canonical values `==` yields the entry of the
\* coercion table (same kinds compared directly, number against the string
\* read as a number, boolean and null first turned into 0 or 1, everything
\* involving an object or array false), and `!=` yields its negation.
C2_EqualityTable ==
    pc = "done" =>
        /\ equal.eq = C2Table(left, right)
        /\ equal.ne = ~C2Table(left, right)

\* a comparison that needs a restart: true == '1' is true
C2_Witness ==
    /\ pc = "done"
    /\ left = Bool(TRUE)
    /\ right = Str(<<"1">>)
    /\ equal.eq
    /\ ~equal.ne

-----------------------------------------------------------------------------
(* Specification SpecOrder: the comparisons of two operands, both ways *)

InitOrder ==
    /\ pc = "order"
    /\ left \in CanonicalValues
    /\ right \in CanonicalValues
    /\ equal = NoResult
    /\ root = Idle /\ ctx = Idle /\ result = Idle
    /\ doc = Idle /\ schemaNode = Idle /\ evaluator = Idle /\ outcome = Idle /\ before = Idle
    /\ checkedExpr = Idle /\ checkNode = Idle /\ checkErrors = Idle

\* abstractEqual on the operands in both orders, abstractGreaterThan and
\* abstractLessThan
Order ==
    /\ pc = "order"
    /\ equal' = [st |-> "ok",
                 eq |-> abstractEqual(left, right),
                 swapped |-> abstractEqual(right, left),
                 gt |-> abstractGreaterThan(left, right),
                 lt |-> abstractLessThan(left, right)]
    /\ pc' = "ordered"
    /\ UNCHANGED <<left, right, root, ctx, result, doc, schemaNode, evaluator, outcome,
                   before, checkedExpr, checkNode, checkErrors>>

NextOrder == Order

SpecOrder == InitOrder /\ [][NextOrder]_vars

-----------------------------------------------------------------------------
(* C23: symmetry of equality, and greater and less exclude each other *)

C23Case == pc = "ordered"

\* C23: abstractEqual(a, b) equals abstractEqual(b, a), and
\* abstractGreaterThan(a, b) and abstractLessThan(a, b) are never both true
C23_Symmetric ==
    C23Case =>
        /\ equal.eq = equal.swapped
        /\ ~(equal.gt /\ equal.lt)

\* a string and a number of different kinds are equal both ways
C23_Witness ==
    /\ C23Case
    /\ left.k = "str" /\ right.k = "num"
    /\ equal.eq /\ equal.swapped
    /\ ~equal.gt /\ ~equal.lt

-----------------------------------------------------------------------------
(* Parse tree nodes: expr (ValueNode, FunctionNode, BinaryNode, UnaryNode) *)

\* Kind is the TokenKind of the token the node was built from; for a named
\* value, property name or wildcard Value is the raw text of the token
ValueNode(kind, value) == [type |-> "value", Kind |-> kind, Value |-> value]
FunctionNode(name, args) == [type |-> "function", Name |-> name, Args |-> args]
BinaryNode(op, l, r) == [type |-> "binary", Op |-> op, Left |-> l, Right |-> r]
UnaryNode(op, operand) == [type |-> "unary", Op |-> op, Operand |-> operand]

Literal(v) ==
    ValueNode(CASE v.k = "null" -> "Null" [] v.k = "bool" -> "Boolean"
                [] v.k = "num" -> "Number" [] v.k = "str" -> "String", v)
NamedValue(name) == ValueNode("NamedValue", Str(name))
PropertyName(name) == ValueNode("PropertyName", Str(name))
Wildcard == ValueNode("Wildcard", Str(<<"*">>))

-----------------------------------------------------------------------------
(* Evaluator: evaluator.go *)

\* outcome of evaluating a node: the result or the error, and the nodes
\* evalNode was entered for, in order
Ok(v, t) == [st |-> "ok", val |-> v, err |-> "", trace |-> t]
Fail(e, t) == [st |-> "error", val |-> Null, err |-> e, trace |-> t]
Panic(t) == [st |-> "panic", val |-> Null, err |-> "panic", trace |-> t]
\* a registered function whose body this model does not describe
Unmodelled(t) == [st |-> "unmodelled", val |-> Null, err |-> "", trace |-> t]

\* CaseInsensitiveObject.Get: the value of the first key, in map iteration
\* order, that equals key under case folding; the zero value without one
Get(m, key) ==
    LET hits == {k \in DOMAIN m : EqualFold(k, key)}
    IN  IF hits = {} THEN {Null} ELSE {m[k] : k \in hits}

\* int64(key) of a float64: a NaN is outside the range of int64, and the
\* conversion then yields an implementation-specific value: math.MinInt64
\* on amd64 (kept here by its sign only), 0 on arm64
ToInt64(key) == IF key.nan THEN {-1, 0} ELSE {key.n}

IndexOk(v) == [st |-> "ok", val |-> v]
IndexPanic == [st |-> "panic", val |-> Null]

\* BasicArray.GetAt
BasicArrayGetAt(items, i) ==
    IF i >= Len(items) THEN IndexOk(Null)
    ELSE IF i < 0 THEN IndexPanic
    ELSE IndexOk(items[i + 1])

\* FilteredArray.GetAt
FilteredArrayGetAt(items, i) ==
    IF i > Len(items) THEN IndexOk(Null)
    ELSE IF i < 0 \/ i = Len(items) THEN IndexPanic
    ELSE IndexOk(items[i + 1])

\* processIndex: the possible outcomes
processIndex(col, key) ==
    IF col.k = "obj"
    THEN IF key.k # "str" THEN {IndexOk(Null)}
         ELSE {IndexOk(v) : v \in Get(col.m, key.s)}
    ELSE IF col.k \in {"arr", "filtered"}
    THEN IF key.k # "num" \/ (~key.nan /\ key.n < 0) THEN {IndexOk(Null)}
         ELSE {IF col.k = "arr" THEN BasicArrayGetAt(col.items, i)
                                ELSE FilteredArrayGetAt(col.items, i)
                  : i \in ToInt64(key)}
    ELSE {IndexOk(Null)}

\* processStar: ret with the children of subcol appended; the values of an
\* object come in map iteration order
processStar(subcol, acc) ==
    IF subcol.k \in {"arr", "filtered"} THEN {acc \o subcol.items}
    ELSE IF subcol.k = "obj"
    THEN {acc \o [i \in 1..Len(p) |-> subcol.m[p[i]]] : p \in Perms(DOMAIN subcol.m)}
    ELSE {acc}

\* evalNode, case ".", wildcard on the right of a FilteredArray: the loop
RECURSIVE StarLoop(_, _, _)
StarLoop(items, i, acc) ==
    IF i > Len(items) THEN {acc}
    ELSE UNION {StarLoop(items, i + 1, a) : a \in processStar(items[i], acc)}

\* evalNode, case ".", wildcard on the right: the FilteredArray returned
evalStar(l) ==
    IF l.k \in {"arr", "obj", "filtered"}
    THEN IF l.k = "filtered"
         THEN {Filtered(a) : a \in StarLoop(l.items, 1, <<>>)}
         ELSE {Filtered(a) : a \in processStar(l, <<>>)}
    ELSE {Filtered(<<>>)}

\* evalNode, cases "." and "[" on a FilteredArray: the loop over its items
RECURSIVE IndexLoop(_, _, _, _)
IndexLoop(items, i, key, acc) ==
    IF i > Len(items) THEN {[st |-> "ok", items |-> acc]}
    ELSE UNION {IF r.st = "panic" THEN {[st |-> "panic", items |-> <<>>]}
                ELSE IF r.val = Null THEN IndexLoop(items, i + 1, key, acc)
                ELSE IndexLoop(items, i + 1, key, Append(acc, r.val))
                   : r \in processIndex(items[i], key)}

\* an index over a FilteredArray that keeps the empty result as an array
evalIndexKeepEmpty(l, key) ==
    IF l.k = "filtered"
    THEN {IF r.st = "panic" THEN IndexPanic ELSE IndexOk(Filtered(r.items))
             : r \in IndexLoop(l.items, 1, key, <<>>)}
    ELSE processIndex(l, key)

\* evalNode, cases "." and "[": the value, or a panic
evalIndex(l, key) ==
    IF l.k = "filtered"
    THEN {IF r.st = "panic" THEN IndexPanic
          ELSE IF r.items = <<>> THEN IndexOk(Null)
          ELSE IndexOk(Filtered(r.items))
             : r \in IndexLoop(l.items, 1, key, <<>>)}
    ELSE processIndex(l, key)

\* evalNode: the operators that need both operands
IsBinaryOperator(op) ==
    op \in {"&&", "||", "==", "!=", ">", "<", ">=", "<=", ".", "["}

\* evalNode, second switch: result of op on two evaluated operands
evalBinary(op, l, r) ==
    CASE op \in {"&&", "||"} -> {IndexOk(r)}
      [] op = "==" -> {IndexOk(Bool(AbstractEqual(l, r)))}
      [] op = "!=" -> {IndexOk(Bool(AbstractNotEqual(l, r)))}
      [] op = ">" -> {IndexOk(Bool(AbstractGreaterThan(l, r)))}
      [] op = "<" -> {IndexOk(Bool(AbstractLessThan(l, r)))}
      [] op = ">=" -> {IndexOk(Bool(AbstractGreaterThanOrEqual(l, r)))}
      [] op = "<=" -> {IndexOk(Bool(AbstractLessThanOrEqual(l, r)))}
      [] op \in {".", "["} -> evalIndex(l, r)

\* a short circuit that never happens: both operands are always evaluated
shortCircuitsNever(op, l) == FALSE

\* evalNode, first switch: `&&` and `||` return the left operand at once
shortCircuits(op, l) ==
    \/ op = "&&" /\ IsFalsy(l)
    \/ op = "||" /\ IsTruthy(l)

\* evalNode, first switch, case ".": the right operand is the wildcard
IsStar(n) ==
    /\ n.Op = "."
    /\ n.Right.type = "value"
    /\ n.Right.Kind = "Wildcard"

fnCase == <<"c", "a", "s", "e">>

RECURSIVE evalNode(_, _)
RECURSIVE CaseEvaluate(_, _, _)

\* Case.Evaluate, the loop from argument i (0-based) on
CaseEvaluate(c, args, i) ==
    IF Len(args) % 2 = 0
    THEN {Fail("case function requires an odd number of arguments", <<>>)}
    ELSE IF i >= Len(args) - 1 THEN evalNode(c, args[Len(args)])
    ELSE UNION {
        IF cond.st # "ok" THEN {cond}
        ELSE IF ValueKind(cond.val) # "Boolean"
        THEN {Fail("case function conditions must evaluate to boolean", cond.trace)}
        ELSE IF IsTruthy(cond.val)
        THEN {[v EXCEPT !.trace = cond.trace \o @] : v \in evalNode(c, args[i + 2])}
        ELSE {[v EXCEPT !.trace = cond.trace \o @] : v \in CaseEvaluate(c, args, i + 2)}
           : cond \in evalNode(c, args[i + 1])}

fnContains == <<"c", "o", "n", "t", "a", "i", "n", "s">>

\* fmt.Sprintf("%v", value) of a canonical value
RECURSIVE GoString(_)
RECURSIVE GoJoin(_, _)
GoJoin(items, i) ==
    IF i > Len(items) THEN <<>>
    ELSE (IF i > 1 THEN <<" ">> ELSE <<>>) \o GoString(items[i]) \o GoJoin(items, i + 1)

GoString(v) ==
    CASE v.k = "null" -> <<"<", "n", "i", "l", ">">>
      [] v.k = "bool" -> IF v.b THEN <<"t", "r", "u", "e">> ELSE <<"f", "a", "l", "s", "e">>
      [] v.k = "num" -> IF v.nan THEN <<"N", "a", "N">> ELSE Digits(v.n)
      [] v.k = "str" -> v.s
      [] v.k \in {"arr", "filtered"} -> <<"[">> \o GoJoin(v.items, 1) \o <<"]">>
      [] v.k = "obj" ->
            <<"m", "a", "p", "[">>
                \o GoJoin([i \in 1..Cardinality(DOMAIN v.m) |->
                            Str(SortedKeys(DOMAIN v.m)[i] \o <<":">>
                                    \o GoString(v.m[SortedKeys(DOMAIN v.m)[i]]))], 1)
                \o <<"]">>

\* EvaluationResult.ConvertToString
ConvertToString(v) ==
    CASE v.k = "null" -> <<>>
      [] v.k = "bool" -> IF v.b THEN <<"t", "r", "u", "e">> ELSE <<"f", "a", "l", "s", "e">>
      [] v.k = "num" -> IF v.nan THEN <<"N", "a", "N">> ELSE Digits(v.n)
      [] v.k = "str" -> v.s
      [] OTHER -> GoString(v)

\* a lower-casing that leaves every letter as it is
ToLowerNone(s) == s

\* strings.ToLower
ToLowerString(s) == [i \in 1..Len(s) |-> FoldChar(s[i])]

\* strings.Contains(s, substr)
StringsContains(s, substr) ==
    \E i \in 0..(Len(s) - Len(substr)) : SubSeq(s, i + 1, i + Len(substr)) = substr

\* Contains.Evaluate, the arguments evaluated
containsValue(collection, el) ==
    IF collection.k \in {"arr", "filtered"}
    THEN \E i \in 1..Len(collection.items) : AbstractEqual(collection.items[i], el)
    ELSE IF collection.k = "obj" THEN FALSE
    ELSE StringsContains(ToLowerString(ConvertToString(collection)),
                         ToLowerString(ConvertToString(el)))

ContainsEvaluate(c, args) ==
    IF Len(args) = 0 THEN {Panic(<<>>)}
    ELSE UNION {
        IF collection.st # "ok" THEN {collection}
        ELSE IF Len(args) = 1 THEN {Panic(collection.trace)}
        ELSE {IF el.st # "ok" THEN [el EXCEPT !.trace = collection.trace \o @]
              ELSE Ok(Bool(containsValue(collection.val, el.val)), collection.trace \o el.trace)
                 : el \in evalNode(c, args[2])}
           : collection \in evalNode(c, args[1])}

\* Function.Evaluate of the function registered under key
FunctionEvaluate(c, key, args) ==
    IF key = fnCase THEN CaseEvaluate(c, args, 0)
    ELSE IF key = fnContains THEN ContainsEvaluate(c, args)
    ELSE {Unmodelled(<<>>)}

\* evalNode under the context c: the possible outcomes
evalNode(c, n) ==
    CASE n.type = "value" ->
            IF n.Kind = "NamedValue"
            THEN IF c.nil THEN {Fail("no evaluation context", <<n>>)}
                 ELSE {IF v = Null THEN Fail("undefined variable", <<n>>)
                                   ELSE Ok(v, <<n>>)
                          : v \in Get(c.Variables, n.Value.s)}
            ELSE {Ok(n.Value, <<n>>)}
      [] n.type = "function" ->
            IF c.nil THEN {Panic(<<n>>)}
            ELSE LET keys == {k \in c.Functions : EqualFold(k, n.Name)}
                 IN  IF keys = {} THEN {Fail("unknown function", <<n>>)}
                     ELSE UNION {{[o EXCEPT !.trace = <<n>> \o @]
                                     : o \in FunctionEvaluate(c, k, n.Args)}
                                    : k \in keys}
      [] n.type = "binary" ->
            UNION {
                IF l.st # "ok" THEN {[l EXCEPT !.trace = <<n>> \o @]}
                ELSE IF shortCircuits(n.Op, l.val)
                THEN {[l EXCEPT !.trace = <<n>> \o @]}
                ELSE IF IsStar(n)
                THEN {Ok(f, <<n>> \o l.trace) : f \in evalStar(l.val)}
                ELSE UNION {
                    IF r.st # "ok"
                    THEN {[r EXCEPT !.trace = <<n>> \o l.trace \o @]}
                    ELSE IF ~IsBinaryOperator(n.Op)
                    THEN {Fail("unsupported operator", <<n>> \o l.trace \o r.trace)}
                    ELSE {IF v.st = "panic"
                          THEN Panic(<<n>> \o l.trace \o r.trace)
                          ELSE Ok(v.val, <<n>> \o l.trace \o r.trace)
                             : v \in evalBinary(n.Op, l.val, r.val)}
                       : r \in evalNode(c, n.Right)}
                   : l \in evalNode(c, n.Left)}
      [] n.type = "unary" ->
            {IF o.st # "ok" THEN [o EXCEPT !.trace = <<n>> \o @]
             ELSE IF n.Op = "!"
             THEN Ok(Bool(~IsTruthy(o.val)), <<n>> \o o.trace)
             ELSE Fail("unsupported unary operator", <<n>> \o o.trace)
                : o \in evalNode(c, n.Operand)}

\* Evaluator.Evaluate
Evaluate(c, n) == evalNode(c, n)

-----------------------------------------------------------------------------
(* Specification SpecEval: Evaluate on a parsed expression *)

MaxIndex == 4

vInner == Arr(<<Num(1), Num(11)>>)
vObj == Obj(keyA :> Num(1) @@ keyB :> Arr(<<Num(0)>>))
\* two keys that are equal under case folding
vDup == Obj(keyA :> Num(1) @@ keyUpperA :> Num(0))
vArr == Arr(<<Num(10), Null, vInner, vObj>>)

\* EvaluationContext; nil stands for an Evaluator built without one
NilContext == [nil |-> TRUE, Variables |-> <<>>, Functions |-> {}]
FullContext ==
    [nil |-> FALSE,
     Variables |-> (<<"a">> :> vArr @@ <<"o">> :> vObj @@ <<"d">> :> vDup
                      @@ <<"s">> :> Str(keyA) @@ <<"e">> :> Arr(<<>>)
                      @@ <<"f">> :> Num(0) @@ <<"z">> :> Null),
     Functions |-> {fnCase}]
BareContext ==
    [nil |-> FALSE, Variables |-> (<<"a">> :> vInner), Functions |-> {}]

Contexts == {NilContext, FullContext, BareContext}

Literals ==
    {Literal(v) : v \in {Null, Bool(TRUE), Bool(FALSE), Num(0), Num(1), NaN,
                         Str(<<>>), Str(keyA)}}

\* u is in no context
Names == {NamedValue(<<c>>) : c \in {"a", "o", "d", "s", "e", "f", "z", "u"}}

Calls ==
    {FunctionNode(fnCase, <<Literal(Bool(TRUE)), NamedValue(<<"a">>), Literal(Num(0))>>),
     FunctionNode(<<"C", "a", "s", "e">>,
                  <<Literal(Bool(FALSE)), NamedValue(<<"u">>), Literal(Num(1))>>),
     FunctionNode(fnCase, <<Literal(Num(1)), Literal(Num(1)), Literal(Num(1))>>),
     FunctionNode(fnCase, <<Literal(Bool(TRUE)), Literal(Num(1))>>),
     FunctionNode(<<"n", "o">>, <<>>)}

Atoms == Literals \cup Names \cup Calls

Stars ==
    LET one == {BinaryNode(".", x, Wildcard) : x \in Names \cup {Literal(Str(keyA))}}
    IN  one \cup {BinaryNode(".", x, Wildcard) : x \in one}

IndexKeys ==
    {Literal(Num(n)) : n \in -1..MaxIndex}
        \cup {Literal(v) : v \in {NaN, Null, Bool(TRUE), Str(keyA), Str(keyUpperA), Str(keyB)}}
        \cup {NamedValue(<<"f">>), NamedValue(<<"u">>)}

IndexBases ==
    Atoms \cup Stars
        \cup {BinaryNode("[", NamedValue(<<"a">>), Literal(Num(n))) : n \in {2, 3}}

Indexes ==
    {BinaryNode("[", x, k) : x \in IndexBases, k \in IndexKeys}
        \cup {BinaryNode(".", x, PropertyName(p))
                 : x \in IndexBases, p \in {keyA, keyUpperA, keyB}}

Operands ==
    Atoms \cup {BinaryNode("[", NamedValue(<<"a">>), Literal(NaN)),
                UnaryNode("!", NamedValue(<<"a">>))}

Few == {Literal(Num(0)), Literal(Str(keyA)), NamedValue(<<"a">>),
        NamedValue(<<"u">>), FunctionNode(<<"n", "o">>, <<>>)}

Logicals ==
    {BinaryNode(op, l, r) : op \in {"&&", "||"}, l \in Operands, r \in Operands}
        \cup {BinaryNode(op, BinaryNode(op2, l, m), r)
                 : op \in {"&&", "||"}, op2 \in {"&&", "||"},
                   l \in Few, m \in Few, r \in Few}

Comparisons ==
    {BinaryNode(op, l, r) : op \in {"==", "!=", ">", "<", ">=", "<="},
                            l \in Literals, r \in Literals}

\* trees no parser builds but Evaluate accepts
Others ==
    {UnaryNode(op, x) : op \in {"!", "-"}, x \in Atoms}
        \cup {BinaryNode("+", Literal(Num(1)), Literal(Num(1)))}

Expressions ==
    Atoms \cup Stars \cup Indexes \cup Logicals \cup Comparisons \cup Others

InitEval ==
    /\ pc = "evaluate"
    /\ root \in Expressions
    /\ ctx \in Contexts
    /\ result = NoResult
    /\ left = Idle /\ right = Idle /\ equal = Idle
    /\ doc = Idle /\ schemaNode = Idle /\ evaluator = Idle /\ outcome = Idle /\ before = Idle
    /\ checkedExpr = Idle /\ checkNode = Idle /\ checkErrors = Idle

\* Evaluator.Evaluate(root)
DoEvaluate ==
    /\ pc = "evaluate"
    /\ result' \in Evaluate(ctx, root)
    /\ pc' = "done"
    /\ UNCHANGED <<left, right, equal, root, ctx, doc, schemaNode, evaluator, outcome,
                   before, checkedExpr, checkNode, checkErrors>>

NextEval == DoEvaluate

SpecEval == InitEval /\ [][NextEval]_vars

-----------------------------------------------------------------------------
(* C1: `&&` and `||` *)

C1Falsy(v) == v \in {Null, Bool(FALSE), Num(0), NaN, Str(<<>>)}

\* the left operand decides alone
C1LeftDecides(op, v) == IF op = "&&" THEN C1Falsy(v) ELSE ~C1Falsy(v)

\* C1: `L && R` returns the value of L itself when L is falsy and otherwise
\* the value of R, `L || R` returns L itself when L is truthy and otherwise
\* the value of R; when L decides, R is not evaluated at all (nothing of R
\* is visited, so nothing in R can raise an error); a failure of L is the
\* failure of the whole evaluation.
C1_ShortCircuit ==
    (pc = "done" /\ root.type = "binary" /\ root.Op \in {"&&", "||"}) =>
        \E l \in evalNode(ctx, root.Left) :
            IF l.st # "ok"
            THEN result = [l EXCEPT !.trace = <<root>> \o @]
            ELSE IF C1LeftDecides(root.Op, l.val)
            THEN result = Ok(l.val, <<root>> \o l.trace)
            ELSE \E r \in evalNode(ctx, root.Right) :
                    result = [r EXCEPT !.trace = <<root>> \o l.trace \o @]

C1_Witness ==
    /\ pc = "done"
    /\ ctx = FullContext
    /\ root = BinaryNode("&&", Literal(Num(0)), NamedValue(<<"u">>))
    /\ result = Ok(Num(0), <<root, Literal(Num(0))>>)

-----------------------------------------------------------------------------
(* C3: indexing *)

C3IsIndex(n) == n.type = "binary" /\ n.Op \in {".", "["} /\ ~IsStar(n)

\* what an index of x by k is to return
C3Expected(x, k) ==
    IF x.k = "obj" /\ k.k = "str"
    THEN LET matching == {key \in DOMAIN x.m : EqualFold(key, k.s)}
         IN  IF matching = {} THEN {Null} ELSE {x.m[key] : key \in matching}
    ELSE IF x.k = "arr" /\ k.k = "num"
    THEN IF ~k.nan /\ 0 <= k.n /\ k.n < Len(x.items)
         THEN {x.items[k.n + 1]} ELSE {Null}
    ELSE {Null}

\* C3: an index `X.name` or `X[k]` whose operands evaluate (X to anything
\* but a filtered array) never fails or crashes and returns: on a mapping
\* with a string key the value of a key matching case-insensitively, null
\* without one; on an array with a number key k item k when 0 <= k < length
\* and null otherwise; null for every other pair of operands.
C3_IndexNeverFails ==
    (pc = "done" /\ C3IsIndex(root)) =>
        LET ls == evalNode(ctx, root.Left)
            rs == evalNode(ctx, root.Right)
        IN  ((\A l \in ls : l.st = "ok" /\ l.val.k # "filtered")
                /\ (\A r \in rs : r.st = "ok")) =>
                /\ result.st = "ok"
                /\ \E l \in ls, r \in rs : result.val \in C3Expected(l.val, r.val)

-----------------------------------------------------------------------------
(* C4: the wildcard and the index over a filtered array *)

\* the children of one element, in every order the element may give them
C4Children(e) ==
    CASE e.k = "arr" -> {e.items}
      [] e.k = "obj" -> {[i \in 1..Len(p) |-> e.m[p[i]]] : p \in Perms(DOMAIN e.m)}
      [] OTHER -> {<<>>}

RECURSIVE C4Concat(_)
C4Concat(items) ==
    IF items = <<>> THEN {<<>>}
    ELSE {h \o t : h \in C4Children(Head(items)), t \in C4Concat(Tail(items))}

\* what `X.*` is to return for the value x of X
C4Star(x) ==
    CASE x.k = "filtered" -> {Filtered(c) : c \in C4Concat(x.items)}
      [] x.k \in {"arr", "obj"} -> {Filtered(c) : c \in C4Children(x)}
      [] OTHER -> {Filtered(<<>>)}

\* processIndex applied to each element in order
RECURSIVE C4Map(_, _)
C4Map(items, key) ==
    IF items = <<>> THEN {<<>>}
    ELSE {<<r>> \o t : r \in processIndex(Head(items), key), t \in C4Map(Tail(items), key)}

C4NotNull(r) == r.val # Null
C4Kept(m) == LET kept == SelectSeq(m, C4NotNull) IN [i \in 1..Len(kept) |-> kept[i].val]
C4Crashes(m) == \E i \in 1..Len(m) : m[i].st = "panic"

C4IsStar(n) == n.type = "binary" /\ IsStar(n)

\* `X.*` yields the filtered array of the children of X
C4StarHolds ==
    (pc = "done" /\ C4IsStar(root)) =>
        \E l \in evalNode(ctx, root.Left) :
            IF l.st # "ok" THEN result.st = l.st
            ELSE result.st = "ok" /\ result.val \in C4Star(l.val)

\* C4 as stated: `X.*` yields the filtered array of the children of X, and
\* an index applied to a filtered array yields the filtered array of the
\* non-null results of processIndex on each element, in order.
C4_AsStated ==
    /\ C4StarHolds
    /\ (pc = "done" /\ C3IsIndex(root)) =>
          \A l \in evalNode(ctx, root.Left), r \in evalNode(ctx, root.Right) :
              (l.st = "ok" /\ l.val.k = "filtered" /\ r.st = "ok") =>
                  \E m \in C4Map(l.val.items, r.val) :
                      ~C4Crashes(m) =>
                          /\ result.st = "ok"
                          /\ result.val = Filtered(C4Kept(m))

\* C4: `X.*` yields the filtered array of the children of X (items of an
\* array in order, values of an object, concatenated children of the
\* elements of a filtered array, nothing for anything else); an index
\* applied to a filtered array applies processIndex to each element in
\* order and keeps the non-null results in order, the result being that
\* filtered array when at least one result is kept and null when none is;
\* a crash of processIndex on an element is a crash of the evaluation.
C4_FilteredIndex ==
    /\ C4StarHolds
    /\ (pc = "done" /\ C3IsIndex(root)) =>
          \A l \in evalNode(ctx, root.Left), r \in evalNode(ctx, root.Right) :
              (l.st = "ok" /\ l.val.k = "filtered" /\ r.st = "ok") =>
                  \E m \in C4Map(l.val.items, r.val) :
                      IF C4Crashes(m) THEN result.st = "panic"
                      ELSE /\ result.st = "ok"
                           /\ result.val = IF C4Kept(m) = <<>> THEN Null
                                           ELSE Filtered(C4Kept(m))
                           /\ result.val # Null => Len(result.val.items) <= Len(l.val.items)

C4_Witness ==
    /\ pc = "done"
    /\ ctx = FullContext
    /\ root = BinaryNode("[", BinaryNode(".", NamedValue(<<"a">>), Wildcard),
                         Literal(Num(1)))
    /\ result.st = "ok"
    /\ result.val = Filtered(<<Num(11)>>)

-----------------------------------------------------------------------------
(* Documents: yaml.Node *)

\* the text of a scalar is kept as its segments: literal text, and the
\* `${{ ... }}` segments, each as the tree Parse builds from its body
Lit(chars) == [seg |-> "lit", chars |-> chars]
Expr(tree) == [seg |-> "expr", tree |-> tree]
Text(chars) == IF chars = <<>> THEN <<>> ELSE <<Lit(chars)>>

ScalarNode(tag, value) == [Kind |-> "scalar", Tag |-> tag, Value |-> value]
MappingNode(content) == [Kind |-> "mapping", Tag |-> "!!map", Content |-> content]
SequenceNode(content) == [Kind |-> "sequence", Tag |-> "!!seq", Content |-> content]

\* a nil pointer, of any of the pointer types
Nil == [nil |-> TRUE]

-----------------------------------------------------------------------------
(* Schema: schema.go *)

\* an entry of Definition.Context: the name of a variable, a function
\* signature name(min,max), or text with a "(" that is no signature
ContextVariable(name) == [entry |-> "variable", name |-> name]
ContextFunction(name, min, max) == [entry |-> "function", name |-> name, min |-> min, max |-> max]
ContextOther == [entry |-> "other"]

StringDefinition(constant, isExpression) ==
    [nil |-> FALSE, Constant |-> constant, IsExpression |-> isExpression]
MappingDefinition(properties, looseValueType) ==
    [nil |-> FALSE, Properties |-> properties, LooseValueType |-> looseValueType]
SequenceDefinition(itemType) == [nil |-> FALSE, ItemType |-> itemType]
MappingProperty(type, required) == [Type |-> type, Required |-> required]
Present == [nil |-> FALSE]

\* the zero Definition
Definition ==
    [Context |-> <<>>, Mapping |-> Nil, Sequence |-> Nil, OneOf |-> Nil,
     AllowedValues |-> Nil, String |-> Nil, Number |-> Nil, Boolean |-> Nil,
     Null |-> Nil]

FunctionInfo(name, min, max) == [Name |-> name, Min |-> min, Max |-> max]

fnEndsWith == <<"e", "n", "d", "s", "W", "i", "t", "h">>
fnFormat == <<"f", "o", "r", "m", "a", "t">>
fnJoin == <<"j", "o", "i", "n">>
fnStartsWith == <<"s", "t", "a", "r", "t", "s", "W", "i", "t", "h">>
fnToJson == <<"t", "o", "J", "s", "o", "n">>
fnFromJson == <<"f", "r", "o", "m", "J", "s", "o", "n">>

\* Schema.GetDefinition over the definitions defs
GetDefinition(defs, name) ==
    IF name \in DOMAIN defs THEN defs[name]
    ELSE CASE name = "any" ->
                [Definition EXCEPT !.OneOf = [nil |-> FALSE, names |->
                    <<"sequence", "mapping", "number", "boolean", "string", "null">>]]
           [] name = "sequence" ->
                [Definition EXCEPT !.Sequence = SequenceDefinition("any")]
           [] name = "mapping" ->
                [Definition EXCEPT !.Mapping = MappingDefinition(<<>>, "any")]
           [] name = "number" -> [Definition EXCEPT !.Number = Present]
           [] name = "string" -> [Definition EXCEPT !.String = StringDefinition(<<>>, FALSE)]
           [] name = "boolean" -> [Definition EXCEPT !.Boolean = Present]
           [] name = "null" -> [Definition EXCEPT !.Null = Present]
           [] OTHER -> Definition

\* schema.Node; Context is nil until UnmarshalYAML or childNode sets it
SchemaNode(defs, definition, context, contextNil, restrictEval) ==
    [nil |-> FALSE, Schema |-> defs, Definition |-> definition,
     Context |-> context, ContextNil |-> contextNil, RestrictEval |-> restrictEval]

\* Node.childNode
childNode(s, defName) ==
    SchemaNode(s.Schema, defName,
               s.Context \o GetDefinition(s.Schema, defName).Context,
               FALSE, s.RestrictEval)

\* Node.GetVariables
GetVariables(s) ==
    LET IsVariable(e) == e.entry = "variable"
        entries == SelectSeq(s.Context, IsVariable)
    IN  [i \in 1..Len(entries) |-> entries[i].name]

\* Node.GetFunctions
GetFunctions(s) ==
    LET IsFunction(e) == e.entry = "function"
        entries == SelectSeq(s.Context, IsFunction)
    IN  <<FunctionInfo(fnContains, 2, 2), FunctionInfo(fnEndsWith, 2, 2),
          FunctionInfo(fnFormat, 1, 255), FunctionInfo(fnJoin, 1, 2),
          FunctionInfo(fnStartsWith, 2, 2), FunctionInfo(fnToJson, 1, 1),
          FunctionInfo(fnFromJson, 1, 1)>>
            \o [i \in 1..Len(entries) |->
                  FunctionInfo(entries[i].name, entries[i].min, entries[i].max)]

\* visitNode: the nodes of the tree in the order the callback sees them
RECURSIVE visitNode(_)
RECURSIVE visitNodes(_)
visitNodes(args) ==
    IF args = <<>> THEN <<>> ELSE visitNode(Head(args)) \o visitNodes(Tail(args))
visitNode(n) ==
    CASE n.type = "function" -> <<n>> \o visitNodes(n.Args)
      [] n.type = "unary" -> <<n>> \o visitNode(n.Operand)
      [] n.type = "binary" -> <<n>> \o visitNode(n.Left) \o visitNode(n.Right)
      [] OTHER -> <<n>>

CheckError(message, name) == [Message |-> message, Name |-> name]

\* checkSingleExpression, the callback: the errors joined for one node
checkVisited(s, funcs, n) ==
    IF n.type = "function"
    THEN LET hits == {i \in 1..Len(funcs) : EqualFold(n.Name, funcs[i].Name)}
         IN  IF hits = {} THEN <<CheckError("unknown Function Call", n.Name)>>
             ELSE LET v == funcs[CHOOSE i \in hits : \A j \in hits : i <= j]
                  IN  (IF v.Min > Len(n.Args)
                       THEN <<CheckError("missing parameters", n.Name)>> ELSE <<>>)
                      \o (IF v.Max < Len(n.Args)
                          THEN <<CheckError("too many parameters", n.Name)>> ELSE <<>>)
    ELSE IF n.type = "value" /\ n.Kind = "NamedValue"
    THEN IF \E i \in 1..Len(s.Context) :
                /\ s.Context[i].entry = "variable"
                /\ EqualFold(n.Value.s, s.Context[i].name)
         THEN <<>>
         ELSE <<CheckError("unknown Variable Access", n.Value.s)>>
    ELSE <<>>

RECURSIVE checkEach(_, _, _)
checkEach(s, funcs, nodes) ==
    IF nodes = <<>> THEN <<>>
    ELSE checkVisited(s, funcs, Head(nodes)) \o checkEach(s, funcs, Tail(nodes))

\* Node.checkSingleExpression: the joined errors, <<>> for nil
checkSingleExpression(s, exprNode) ==
    IF Len(s.Context) = 0
    THEN IF exprNode.type = "value" THEN <<>>
         ELSE <<CheckError("expressions are not allowed here", <<>>)>>
    ELSE checkEach(s, GetFunctions(s), visitNode(exprNode))

-----------------------------------------------------------------------------
(* Validation of a document against a definition: Node.UnmarshalYAML.     *)
(* The operators give the error the Go function returns, Nil for nil.     *)

nameInsert == <<"i", "n", "s", "e", "r", "t">>

\* text that is an expression without the `${{ }}` around it
Bare(tree) == [seg |-> "bare", tree |-> tree]

\* node.Value of a node; only a scalar has one
ValueOf(node) == IF node.Kind = "scalar" THEN node.Value ELSE <<>>

IsExprSegment(x) == x.seg = "expr"

\* the trees of the `${{ }}` segments of a text, in order
ExprTrees(value) ==
    LET segs == SelectSeq(value, IsExprSegment)
    IN  [i \in 1..Len(segs) |-> segs[i].tree]

\* insertDirective.MatchString
MatchesInsert(value) ==
    \E i \in 1..Len(value) : value[i] = Expr(NamedValue(nameInsert))

\* strings.ToLower, on the text of a key
ToLower(value) ==
    [i \in 1..Len(value) |->
        IF value[i].seg = "lit"
        THEN Lit([j \in 1..Len(value[i].chars) |-> FoldChar(value[i].chars[j])])
        ELSE value[i]]

\* the property a key names
KeyOf(value) == IF Len(value) = 1 /\ value[1].seg = "lit" THEN value[1].chars ELSE <<>>

\* SchemaValidationError; Name is the key, the property or the alternative
\* its message names and Cause the error whose text the message quotes
SchemaValidationError(kind, message, name, cause) ==
    [Kind |-> kind, Message |-> message, Name |-> name, Cause |-> cause]

\* SchemaValidationErrorCollection
SchemaValidationErrorCollection(errors, collections) ==
    [Errors |-> errors, Collections |-> collections]

\* the error values: a SchemaValidationError, a collection, the result of
\* errors.Join, and any other error; Nil is the nil error
ErrSingle(e) == [error |-> "single", e |-> e]
ErrCollection(c) == [error |-> "collection", col |-> c]
ErrOther(message) == [error |-> "other", message |-> message]

\* errors.Join of an error collected so far and one more
ErrorsJoin(a, b) ==
    IF a = Nil /\ b = Nil THEN Nil
    ELSE [error |-> "join", errs |-> (IF a = Nil THEN <<>> ELSE <<a>>)
                                        \o (IF b = Nil THEN <<>> ELSE <<b>>)]

\* AsSchemaValidationErrorCollection
AsSchemaValidationErrorCollection(err) ==
    IF err = Nil THEN Nil
    ELSE IF err.error = "collection" THEN err.col
    ELSE IF err.error = "single" THEN SchemaValidationErrorCollection(<<err.e>>, <<>>)
    ELSE Nil

\* Node.checkExpression, the loop over the `${{ }}` parts
RECURSIVE checkExpressionLoop(_, _, _)
checkExpressionLoop(s, trees, err) ==
    IF trees = <<>> THEN err
    ELSE LET cerr == checkSingleExpression(s, Head(trees))
         IN  checkExpressionLoop(s, Tail(trees),
                IF cerr = <<>> THEN err
                ELSE ErrorsJoin(err, ErrSingle(SchemaValidationError(
                        "Fatal", "expression", <<>>, [joined |-> cerr]))))

\* Node.checkExpression: whether the text has an expression, and the
\* errors of its expressions
checkExpression(s, node) ==
    IF s.RestrictEval THEN [isExpr |-> FALSE, err |-> Nil]
    ELSE LET trees == ExprTrees(ValueOf(node))
         IN  [isExpr |-> trees # <<>>, err |-> checkExpressionLoop(s, trees, Nil)]

\* exprparser.Parse of the text of a scalar at an expression-string site
ParseValue(value) ==
    IF Len(value) = 1 /\ value[1].seg = "bare" THEN [ok |-> TRUE, tree |-> value[1].tree]
    ELSE IF Len(value) = 1 /\ value[1].seg = "lit" /\ Len(value[1].chars) = 1
    THEN [ok |-> TRUE, tree |-> NamedValue(value[1].chars)]
    ELSE [ok |-> FALSE, tree |-> Nil]

\* Node.checkString
checkString(s, node, def) ==
    IF def.String.Constant # <<>> /\ Text(def.String.Constant) # node.Value
    THEN ErrSingle(SchemaValidationError("Fatal", "expected constant", def.String.Constant, Nil))
    ELSE IF def.String.IsExpression /\ ~s.RestrictEval
    THEN IF ~ParseValue(node.Value).ok
         THEN ErrSingle(SchemaValidationError("Fatal", "failed to parse", <<>>, Nil))
         ELSE LET cerr == checkSingleExpression(s, ParseValue(node.Value).tree)
              IN  IF cerr = <<>> THEN Nil
                  ELSE ErrSingle(SchemaValidationError("Fatal", "expression", <<>>,
                                                       [joined |-> cerr]))
    ELSE Nil

\* assertKind
assertKind(node, kind) ==
    IF node.Kind # kind
    THEN ErrSingle(SchemaValidationError("Mismatched", "expected a kind", <<>>,
                                         [kind |-> kind, got |-> node.Kind]))
    ELSE Nil

\* UnmarshalYAML: s.Context is taken from the definition when it is nil
WithContext(s) ==
    IF s.ContextNil
    THEN [s EXCEPT !.Context = GetDefinition(s.Schema, s.Definition).Context,
                   !.ContextNil = GetDefinition(s.Schema, s.Definition).Context = <<>>]
    ELSE s

\* math.MaxInt, as the invalidProps of checkOneOf start
MaxInt == 2147483647

RECURSIVE UnmarshalYAML(_, _)
RECURSIVE checkMappingPairs(_, _, _, _, _, _)
RECURSIVE checkSequenceLoop(_, _, _, _)
RECURSIVE checkOneOfLoop(_, _, _, _, _)

\* Node.checkSequence, the loop from element i on
checkSequenceLoop(s, node, i, allErrors) ==
    IF i > Len(node.Content) THEN allErrors
    ELSE checkSequenceLoop(s, node, i + 1,
            ErrorsJoin(allErrors,
                UnmarshalYAML(childNode(s, GetDefinition(s.Schema, s.Definition).Sequence.ItemType),
                              node.Content[i])))

\* Node.checkSequence
checkSequence(s, node, def) ==
    IF assertKind(node, "sequence") # Nil THEN assertKind(node, "sequence")
    ELSE checkSequenceLoop(s, node, 1, Nil)

\* the number of errors of a kind among the errors of a collection
RECURSIVE CountKind(_, _)
CountKind(errors, kind) ==
    IF errors = <<>> THEN 0
    ELSE (IF Head(errors).Kind = kind THEN 1 ELSE 0) + CountKind(Tail(errors), kind)

\* a count that ranks a collection without invalid properties first
matchedCountPlain(col) == CountKind(col.Errors, "InvalidProperty")

\* checkOneOf: the invalid properties of a collection, math.MaxInt when it
\* has none
matchedCount(col) ==
    IF CountKind(col.Errors, "InvalidProperty") = 0 THEN MaxInt
    ELSE CountKind(col.Errors, "InvalidProperty")

\* col appended n times
RECURSIVE Repeated(_, _)
Repeated(col, n) == IF n = 0 THEN <<>> ELSE <<col>> \o Repeated(col, n - 1)

\* Node.checkOneOf, the loop from alternative i on
checkOneOfLoop(s, node, i, invalidProps, bestMatches) ==
    LET names == GetDefinition(s.Schema, s.Definition).OneOf.names
    IN  IF i > Len(names)
        THEN IF bestMatches.Errors # <<>> \/ bestMatches.Collections # <<>>
             THEN ErrCollection(bestMatches) ELSE Nil
        ELSE LET err == UnmarshalYAML(childNode(s, names[i]), node)
                 col == AsSchemaValidationErrorCollection(err)
             IN  IF err = Nil THEN Nil
                 ELSE IF col # Nil
                 THEN LET matched == matchedCount(col)
                          mismatched == IF invalidProps = MaxInt
                                        THEN Repeated(col, CountKind(col.Errors, "Mismatched"))
                                        ELSE <<>>
                          sofar == bestMatches.Collections \o mismatched
                      IN  IF matched <= invalidProps
                          THEN checkOneOfLoop(s, node, i + 1, matched,
                                  [bestMatches EXCEPT !.Collections =
                                      (IF matched < invalidProps THEN <<>> ELSE sofar)
                                          \o <<col>>])
                          ELSE checkOneOfLoop(s, node, i + 1, invalidProps,
                                  [bestMatches EXCEPT !.Collections = sofar])
                 ELSE checkOneOfLoop(s, node, i + 1, invalidProps,
                        [bestMatches EXCEPT !.Errors =
                            Append(@, SchemaValidationError("Fatal", "failed to match",
                                                            <<names[i]>>, err))])

\* Node.checkOneOf
checkOneOf(s, def, node) ==
    checkOneOfLoop(s, node, 1, MaxInt, SchemaValidationErrorCollection(<<>>, <<>>))

\* the missing-property errors of checkMapping, for the properties in keys
RECURSIVE MissingProperties(_, _, _)
MissingProperties(props, keys, used) ==
    IF keys = <<>> THEN <<>>
    ELSE (IF props[Head(keys)].Required /\ Text(Head(keys)) \notin used
          THEN <<SchemaValidationError("MissingProperty", "missing property", Head(keys), Nil)>>
          ELSE <<>>) \o MissingProperties(props, Tail(keys), used)

\* Node.checkMapping, the loop from pair i on: used is the keys of
\* usedProperties and hasKeyExpr the flag so far
checkMappingPairs(s, node, i, used, hasKeyExpr, allErrors) ==
    LET def == GetDefinition(s.Schema, s.Definition)
        props == def.Mapping.Properties
        Add(all, e) == [all EXCEPT !.Errors = Append(@, e)]
    IN  IF 2 * i > Len(node.Content)
        THEN LET all == IF hasKeyExpr THEN allErrors
                        ELSE [allErrors EXCEPT !.Errors =
                                @ \o MissingProperties(props, SortedKeys(DOMAIN props), used)]
             IN  IF all.Errors = <<>> /\ all.Collections = <<>> THEN Nil
                 ELSE ErrCollection(all)
        ELSE LET k == node.Content[2 * i - 1]
                 v == node.Content[2 * i]
                 key == ValueOf(k)
                 ce == checkExpression(s, k)
                 duplicate == ToLower(key) \in used
                 all1 == IF duplicate
                         THEN Add(allErrors, SchemaValidationError(
                                 "Fatal", "duplicate property", KeyOf(key), Nil))
                         ELSE allErrors
                 used1 == IF duplicate THEN used ELSE used \cup {ToLower(key), key}
                 known == KeyOf(key) \in DOMAIN props
                 err == UnmarshalYAML(childNode(s, IF known THEN props[KeyOf(key)].Type
                                                   ELSE def.Mapping.LooseValueType), v)
                 col == AsSchemaValidationErrorCollection(err)
             IN  IF MatchesInsert(key)
                 THEN checkMappingPairs(s, node, i + 1, used, TRUE,
                        IF Len(s.Context) = 0
                        THEN Add(allErrors, SchemaValidationError(
                                "Fatal", "insert is not allowed here", <<>>, Nil))
                        ELSE allErrors)
                 ELSE IF ce.err # Nil
                 THEN checkMappingPairs(s, node, i + 1, used, TRUE,
                        Add(allErrors, SchemaValidationError("Fatal", "key", <<>>, ce.err)))
                 ELSE IF ce.isExpr
                 THEN checkMappingPairs(s, node, i + 1, used, TRUE, allErrors)
                 ELSE IF ~known /\ def.Mapping.LooseValueType = ""
                 THEN checkMappingPairs(s, node, i + 1, used1, hasKeyExpr,
                        Add(all1, SchemaValidationError(
                                "InvalidProperty", "unknown property", KeyOf(key), Nil)))
                 ELSE IF err = Nil
                 THEN checkMappingPairs(s, node, i + 1, used1, hasKeyExpr, all1)
                 ELSE IF col # Nil
                 THEN checkMappingPairs(s, node, i + 1, used1, hasKeyExpr,
                        [Add(all1, SchemaValidationError(
                                "Fatal", "error found in value of key", KeyOf(key), Nil))
                            EXCEPT !.Collections = Append(@, col)])
                 ELSE checkMappingPairs(s, node, i + 1, used1, hasKeyExpr,
                        Add(all1, SchemaValidationError("Fatal", "value", KeyOf(key), err)))

\* Node.checkMapping
checkMapping(s, node, def) ==
    IF assertKind(node, "mapping") # Nil THEN assertKind(node, "mapping")
    ELSE checkMappingPairs(s, node, 1, {}, FALSE, SchemaValidationErrorCollection(<<>>, <<>>))

\* Node.UnmarshalYAML
UnmarshalYAML(s0, node) ==
    LET s == WithContext(s0)
        def == GetDefinition(s.Schema, s.Definition)
        ce == checkExpression(s, node)
    IN  IF ce.err # Nil THEN ce.err
        ELSE IF ce.isExpr THEN Nil
        ELSE IF def.Mapping # Nil THEN checkMapping(s, node, def)
        ELSE IF def.Sequence # Nil THEN checkSequence(s, node, def)
        ELSE IF def.OneOf # Nil THEN checkOneOf(s, def, node)
        ELSE IF assertKind(node, "scalar") # Nil THEN assertKind(node, "scalar")
        ELSE IF def.String # Nil THEN checkString(s, node, def)
        ELSE IF def.Number # Nil
        THEN IF node.Tag \in {"!!int", "!!float", "!!null"} THEN Nil ELSE ErrOther("decode")
        ELSE IF def.Boolean # Nil
        THEN IF node.Tag \in {"!!bool", "!!null"} THEN Nil ELSE ErrOther("decode")
        ELSE IF def.AllowedValues # Nil
        THEN IF \E i \in 1..Len(def.AllowedValues.values) :
                    Text(def.AllowedValues.values[i]) = node.Value
             THEN Nil
             ELSE ErrSingle(SchemaValidationError("Fatal", "expected one of", <<>>, Nil))
        ELSE IF def.Null # Nil
        THEN IF node.Tag = "!!null" THEN Nil
             ELSE ErrSingle(SchemaValidationError("Fatal", "invalid Null", <<>>, Nil))
        ELSE ErrOther("unsupported")

-----------------------------------------------------------------------------
(* Document evaluator: templateeval/evaluate.go *)

\* Node.GetNestedNode of a non-nil node; Nil for a nil result
RECURSIVE GetNestedNode(_, _)
RECURSIVE GetNestedNodeOneOf(_, _, _)
GetNestedNodeOneOf(s, names, path) ==
    IF names = <<>> THEN Nil
    ELSE LET opt == GetNestedNode(childNode(s, Head(names)), path)
         IN  IF opt # Nil THEN opt ELSE GetNestedNodeOneOf(s, Tail(names), path)
GetNestedNode(s, path) ==
    IF path = <<>> THEN s
    ELSE LET def == GetDefinition(s.Schema, s.Definition)
         IN  IF def.Mapping # Nil
             THEN IF path[1] \in DOMAIN def.Mapping.Properties
                  THEN GetNestedNode(childNode(s, def.Mapping.Properties[path[1]].Type),
                                     Tail(path))
                  ELSE IF def.Mapping.LooseValueType = "" THEN Nil
                  ELSE GetNestedNode(childNode(s, def.Mapping.LooseValueType), Tail(path))
             ELSE IF def.Sequence # Nil
             THEN IF path[1] # <<"*">> THEN Nil
                  ELSE GetNestedNode(childNode(s, def.Sequence.ItemType), Tail(path))
             ELSE IF def.OneOf # Nil THEN GetNestedNodeOneOf(s, def.OneOf.names, path)
             ELSE Nil

\* Evaluator.ToRaw followed by yaml.Node.Encode of the raw value
RECURSIVE EncodeValue(_)
RECURSIVE EncodePairs(_, _)
EncodePairs(m, keys) ==
    IF keys = <<>> THEN <<>>
    ELSE <<ScalarNode("!!str", Text(Head(keys))), EncodeValue(m[Head(keys)])>>
            \o EncodePairs(m, Tail(keys))
EncodeValue(v) ==
    CASE v.k = "null" -> ScalarNode("!!null", Text(<<"n", "u", "l", "l">>))
      [] v.k = "bool" ->
            ScalarNode("!!bool", Text(IF v.b THEN <<"t", "r", "u", "e">>
                                      ELSE <<"f", "a", "l", "s", "e">>))
      [] v.k = "num" ->
            IF v.nan THEN ScalarNode("!!float", Text(<<".", "n", "a", "n">>))
            ELSE ScalarNode("!!int", Text(Digits(v.n)))
      [] v.k = "str" -> ScalarNode("!!str", Text(v.s))
      [] v.k \in {"arr", "filtered"} ->
            SequenceNode([i \in 1..Len(v.items) |-> EncodeValue(v.items[i])])
      [] v.k = "obj" -> MappingNode(EncodePairs(v.m, SortedKeys(DOMAIN v.m)))

\* yaml.Node.Encode of a yaml.Node: the node is written out and parsed
\* again; kind, tag and text of every node come back as they were
RECURSIVE EncodeNode(_)
EncodeNode(n) ==
    IF n.Kind = "scalar" THEN ScalarNode(n.Tag, n.Value)
    ELSE [n EXCEPT !.Content = [i \in 1..Len(n.Content) |-> EncodeNode(n.Content[i])]]

\* isImplExpr; the nil dereference of a definition without String is
\* never reached, the && stops before it
isImplExpr(snode) ==
    LET def == GetDefinition(snode.Schema, snode.Definition)
    IN  def.String # Nil /\ def.String.IsExpression

\* ExpressionEvaluator (ee)
ExpressionEvaluator(restrictEval, evaluationContext) ==
    [RestrictEval |-> restrictEval, EvaluationContext |-> evaluationContext]

\* Variables.Get(name) != nil, for each order the map may be iterated in
VariablePresent(c, name) == {v # Null : v \in Get(c.Variables, name)}

\* Functions.Get(name) != nil
FunctionPresent(c, name) == \E k \in c.Functions : EqualFold(k, name)

\* only the named values of the expression
ReferencedVariables(parsed, snode) ==
    {visitNode(parsed)[i].Value.s
        : i \in {j \in 1..Len(visitNode(parsed)) :
                    /\ visitNode(parsed)[j].type = "value"
                    /\ visitNode(parsed)[j].Kind = "NamedValue"}}

\* what canEvaluate looks up: the variables of the context of the site
\* and the named values of the expression
LookedUpVariables(parsed, snode) ==
    {GetVariables(snode)[i] : i \in 1..Len(GetVariables(snode))}
        \cup {visitNode(parsed)[i].Value.s
                 : i \in {j \in 1..Len(visitNode(parsed)) :
                             /\ visitNode(parsed)[j].type = "value"
                             /\ visitNode(parsed)[j].Kind = "NamedValue"}}

\* the functions of the site and the functions the expression calls
LookedUpFunctions(parsed, snode) ==
    {GetFunctions(snode)[i].Name : i \in 1..Len(GetFunctions(snode))}
        \cup {visitNode(parsed)[i].Name
                 : i \in {j \in 1..Len(visitNode(parsed)) :
                             visitNode(parsed)[j].type = "function"}}

\* ExpressionEvaluator.canEvaluate: the possible results
canEvaluate(ee, parsed, snode) ==
    LET c == ee.EvaluationContext
        functions == \A f \in LookedUpFunctions(parsed, snode) : FunctionPresent(c, f)
        lookups == {VariablePresent(c, v) : v \in LookedUpVariables(parsed, snode)}
    IN  {b \in BOOLEAN :
            \/ b /\ functions /\ \A l \in lookups : TRUE \in l
            \/ ~b /\ (~functions \/ \E l \in lookups : FALSE \in l)}

\* the format string of an interpolated text: the literal segments with a
\* slot {i} for the i-th expression
RECURSIVE FormatString(_, _)
FormatString(value, slot) ==
    IF value = <<>> THEN <<>>
    ELSE IF Head(value).seg = "expr"
    THEN <<"{">> \o Digits(slot) \o <<"}">> \o FormatString(Tail(value), slot + 1)
    ELSE IF Head(value).seg = "lit"
    THEN Head(value).chars \o FormatString(Tail(value), slot)
    ELSE FormatString(Tail(value), slot)

\* rewriteSubExpression followed by exprparser.Parse of its output
rewriteSubExpression(value, forceFormat) ==
    LET trees == ExprTrees(value)
    IN  IF trees = <<>> THEN [parsed |-> Nil, isExpr |-> FALSE]
        ELSE IF Len(value) = 1 /\ ~forceFormat
        THEN [parsed |-> trees[1], isExpr |-> TRUE]
        ELSE [parsed |-> FunctionNode(fnFormat,
                            <<Literal(Str(FormatString(value, 0)))>> \o trees),
              isExpr |-> TRUE]

\* what an evaluate function leaves: st "ok" with the node returned (Nil
\* for a nil *yaml.Node), "error" with the error, or "panic"; node is the
\* node handed in as the call leaves it (a tag is written in place)
Returned(r, node) == [st |-> "ok", ret |-> r, err |-> "", node |-> node]
Failed(e, node) == [st |-> "error", ret |-> Nil, err |-> e, node |-> node]
Crashed(node) == [st |-> "panic", ret |-> Nil, err |-> "panic", node |-> node]

\* a restriction that holds no scalar back
restrictedNever(ee, node) == FALSE

\* evaluateScalarYamlNode: under RestrictEval only a scalar tagged !!expr
\* is evaluated
restricted(ee, node) == ee.RestrictEval /\ node.Tag # "!!expr"

\* an evaluation whose result is not validated
evaluateParsedUnchecked(ee, node, snode, parsed) ==
    {CASE o.st = "ok" -> Returned(EncodeValue(o.val), node)
       [] o.st = "error" -> Failed(o.err, node)
       [] o.st = "panic" -> Crashed(node)
       [] OTHER -> Failed("unmodelled", node)
        : o \in Evaluate(ee.EvaluationContext, parsed)}

\* evaluateScalarYamlNode from EvaluateRaw on: the node replaced by the
\* encoded result, which is validated against the definition of the site
evaluateParsed(ee, node, snode, parsed) ==
    {CASE o.st = "ok" ->
            IF UnmarshalYAML(snode, EncodeValue(o.val)) = Nil
            THEN Returned(EncodeValue(o.val), node)
            ELSE Failed("schema", node)
       [] o.st = "error" -> Failed(o.err, node)
       [] o.st = "panic" -> Crashed(node)
       [] OTHER -> Failed("unmodelled", node)
        : o \in Evaluate(ee.EvaluationContext, parsed)}

\* ExpressionEvaluator.evaluateScalarYamlNode
evaluateScalarYamlNode(ee, node, snode) ==
    LET rw == rewriteSubExpression(node.Value, FALSE)
    IN  IF snode = Nil \/ (~rw.isExpr /\ ~isImplExpr(snode))
        THEN {Returned(node, node)}
        ELSE IF GetDefinition(snode.Schema, snode.Definition).String = Nil
        THEN {Crashed(node)}
        ELSE IF \/ GetDefinition(snode.Schema, snode.Definition).String.IsExpression
                \/ restricted(ee, node)
        THEN {Returned(node, node)}
        ELSE UNION {
            IF can THEN evaluateParsed(ee, node, snode, rw.parsed)
            ELSE {Returned([node EXCEPT !.Tag = "!!expr"],
                           [node EXCEPT !.Tag = "!!expr"])}
               : can \in canEvaluate(ee, rw.parsed, snode)}

\* a sequence that keeps every evaluated element as one element
mergesNever(ev, wasseq) == FALSE

\* evaluateSequenceYamlNode: a sequence that evaluation made of an element
\* that was none is merged into the parent
merges(ev, wasseq) == ev.Kind = "sequence" /\ ~wasseq

RECURSIVE evaluateYamlNodeInternal(_, _, _)
RECURSIVE evaluateSequenceLoop(_, _, _, _, _, _)
RECURSIVE evaluateMappingLoop(_, _, _, _, _, _)

\* evaluateSequenceYamlNode, the loop from element i on: acc is
\* ret.Content (Nil while ret is nil), content is node.Content as the
\* calls so far have left it
evaluateSequenceLoop(ee, node, snode, i, acc, content) ==
    IF i > Len(content)
    THEN {Returned(IF acc = Nil THEN Nil ELSE [EncodeNode(node) EXCEPT !.Content = acc.c],
                   [node EXCEPT !.Content = content])}
    ELSE IF snode = Nil THEN {Crashed([node EXCEPT !.Content = content])}
    ELSE LET v == content[i]
             wasseq == v.Kind = "sequence"
         IN  UNION {
                LET now == [content EXCEPT ![i] = o.node]
                    started == IF acc # Nil THEN acc.c
                               ELSE [j \in 1..(i - 1) |-> EncodeNode(now[j])]
                IN  IF o.st # "ok" THEN {[o EXCEPT !.node = [node EXCEPT !.Content = now]]}
                    ELSE IF o.ret # Nil
                    THEN evaluateSequenceLoop(ee, node, snode, i + 1,
                            [c |-> IF merges(o.ret, wasseq)
                                   THEN started \o o.ret.Content
                                   ELSE Append(started, o.ret)], now)
                    ELSE evaluateSequenceLoop(ee, node, snode, i + 1,
                            IF acc # Nil THEN [c |-> Append(acc.c, o.node)] ELSE Nil, now)
                   : o \in evaluateYamlNodeInternal(ee, v, GetNestedNode(snode, <<<<"*">>>>))}

\* ExpressionEvaluator.evaluateSequenceYamlNode
evaluateSequenceYamlNode(ee, node, snode) ==
    evaluateSequenceLoop(ee, node, snode, 1, Nil, node.Content)

\* evaluateMappingYamlNode, the loop from pair i on: acc is ret.Content
\* (Nil while ret is nil), content is node.Content as the calls so far
\* have left it.  For a key that matches the insert directive ek stays nil
\* and ek.Value, read for the value of the pair, is a nil dereference.
evaluateMappingLoop(ee, node, snode, i, acc, content) ==
    IF 2 * i > Len(content)
    THEN {Returned(IF acc = Nil THEN Nil ELSE [EncodeNode(node) EXCEPT !.Content = acc.c],
                   [node EXCEPT !.Content = content])}
    ELSE LET k == content[2 * i - 1]
             v == content[2 * i]
             shouldInsert == k.Kind = "scalar" /\ MatchesInsert(k.Value)
             Before(c) == [j \in 1..(2 * i - 2) |-> EncodeNode(c[j])]
         IN  IF shouldInsert THEN {Crashed([node EXCEPT !.Content = content])}
             ELSE UNION {
                LET now1 == [content EXCEPT ![2 * i - 1] = ok.node]
                    ek == IF ok.ret # Nil THEN ok.ret ELSE ok.node
                    acc1 == IF ok.ret # Nil /\ acc = Nil THEN [c |-> Before(now1)] ELSE acc
                IN  IF ok.st # "ok" THEN {[ok EXCEPT !.node = [node EXCEPT !.Content = now1]]}
                    ELSE IF snode = Nil THEN {Crashed([node EXCEPT !.Content = now1])}
                    ELSE UNION {
                        LET now2 == [now1 EXCEPT ![2 * i] = ov.node]
                            ev == IF ov.ret # Nil THEN ov.ret ELSE ov.node
                            acc2 == IF ov.ret # Nil /\ acc1 = Nil
                                    THEN [c |-> Before(now2)] ELSE acc1
                        IN  IF ov.st # "ok"
                            THEN {[ov EXCEPT !.node = [node EXCEPT !.Content = now2]]}
                            ELSE evaluateMappingLoop(ee, node, snode, i + 1,
                                    IF acc2 # Nil THEN [c |-> acc2.c \o <<ek, ev>>] ELSE Nil,
                                    now2)
                           : ov \in evaluateYamlNodeInternal(ee, v,
                                        GetNestedNode(snode, <<KeyOf(ValueOf(ek))>>))}
                   : ok \in evaluateYamlNodeInternal(ee, k, snode)}

\* ExpressionEvaluator.evaluateMappingYamlNode
evaluateMappingYamlNode(ee, node, snode) ==
    evaluateMappingLoop(ee, node, snode, 1, Nil, node.Content)

\* ExpressionEvaluator.evaluateYamlNodeInternal
evaluateYamlNodeInternal(ee, node, snode) ==
    CASE node.Kind = "scalar" -> evaluateScalarYamlNode(ee, node, snode)
      [] node.Kind = "mapping" -> evaluateMappingYamlNode(ee, node, snode)
      [] node.Kind = "sequence" -> evaluateSequenceYamlNode(ee, node, snode)

\* ExpressionEvaluator.EvaluateYamlNode: the error returned, and the
\* document the caller holds afterwards
EvaluateYamlNode(ee, node, snode) ==
    {[st |-> o.st, err |-> o.err,
      node |-> IF o.st = "ok" /\ o.ret # Nil THEN o.ret ELSE o.node]
        : o \in evaluateYamlNodeInternal(ee, node, snode)}

-----------------------------------------------------------------------------
(* Specification SpecCheck: checkSingleExpression on a parsed expression *)

MaxArgs == 3

nameG == <<"g">>
nameUpperG == <<"G">>
nameU == <<"u">>
fnAlways == <<"a", "l", "w", "a", "y", "s">>
fnHashFiles == <<"h", "a", "s", "h", "F", "i", "l", "e", "s">>

\* Node.Context of the checking node: none, variables only, and variables
\* with function signatures, MAX standing for math.MaxInt32
CheckContexts ==
    {<<>>,
     <<ContextVariable(nameG)>>,
     <<ContextVariable(nameG), ContextFunction(fnAlways, 0, 0),
       ContextFunction(fnHashFiles, 1, MaxInt32), ContextOther>>,
     <<ContextVariable(nameG), ContextFunction(fnCase, 3, MaxInt32)>>}

MaxCaseArgs == 5

\* calls of case with 0 to MaxCaseArgs parameters
CaseCalls ==
    {FunctionNode(fnCase, args) : args \in SeqsUpTo({Literal(Num(1))}, MaxCaseArgs)}

CheckArgs == {Literal(Num(1)), NamedValue(nameUpperG), NamedValue(nameU)}

CheckCalls ==
    {FunctionNode(name, args)
        : name \in {fnFormat, fnJoin, <<"J", "O", "I", "N">>, fnAlways,
                    fnHashFiles, <<"n", "o">>},
          args \in SeqsUpTo(CheckArgs, MaxArgs)}

CheckOperands ==
    {Literal(Str(keyA)), NamedValue(nameG), NamedValue(nameU),
     FunctionNode(fnAlways, <<>>), FunctionNode(fnAlways, <<Literal(Num(1))>>),
     FunctionNode(<<"n", "o">>, <<>>),
     BinaryNode(".", NamedValue(nameG), PropertyName(keyA))}

CheckExpressions ==
    CheckArgs \cup CheckCalls \cup CaseCalls \cup CheckOperands
        \cup {BinaryNode(op, l, r) : op \in {"&&", "=="},
                                     l \in CheckOperands, r \in CheckOperands}
        \cup {UnaryNode("!", x) : x \in CheckOperands}

InitCheck ==
    /\ pc = "check"
    /\ checkedExpr \in CheckExpressions
    /\ checkNode \in {SchemaNode(<<>>, "string", c, FALSE, FALSE) : c \in CheckContexts}
    /\ checkErrors = NoResult
    /\ left = Idle /\ right = Idle /\ equal = Idle
    /\ root = Idle /\ ctx = Idle /\ result = Idle
    /\ doc = Idle /\ schemaNode = Idle /\ evaluator = Idle
    /\ outcome = Idle /\ before = Idle

\* Node.checkSingleExpression(exprNode)
CheckSingleExpression ==
    /\ pc = "check"
    /\ checkErrors' = [st |-> "done",
                       errs |-> checkSingleExpression(checkNode, checkedExpr)]
    /\ pc' = "done"
    /\ UNCHANGED <<left, right, equal, root, ctx, result, doc, schemaNode,
                   evaluator, outcome, before, checkedExpr, checkNode>>

NextCheck == CheckSingleExpression

SpecCheck == InitCheck /\ [][NextCheck]_vars

-----------------------------------------------------------------------------
(* C10: the static check of an expression *)

\* the functions allowed at a node: the built-ins and the signatures of
\* its context
C10Allowed(s) ==
    {[name |-> fnContains, min |-> 2, max |-> 2],
     [name |-> fnEndsWith, min |-> 2, max |-> 2],
     [name |-> fnFormat, min |-> 1, max |-> 255],
     [name |-> fnJoin, min |-> 1, max |-> 2],
     [name |-> fnStartsWith, min |-> 2, max |-> 2],
     [name |-> fnToJson, min |-> 1, max |-> 1],
     [name |-> fnFromJson, min |-> 1, max |-> 1]}
        \cup {[name |-> s.Context[i].name, min |-> s.Context[i].min,
               max |-> s.Context[i].max]
                 : i \in {j \in 1..Len(s.Context) : s.Context[j].entry = "function"}}

C10Variables(s) ==
    {s.Context[i].name : i \in {j \in 1..Len(s.Context) : s.Context[j].entry = "variable"}}

RECURSIVE C10Subtrees(_)
C10Subtrees(n) ==
    {n} \cup
        CASE n.type = "function" -> UNION {C10Subtrees(n.Args[i]) : i \in 1..Len(n.Args)}
          [] n.type = "unary" -> C10Subtrees(n.Operand)
          [] n.type = "binary" -> C10Subtrees(n.Left) \cup C10Subtrees(n.Right)
          [] OTHER -> {}

C10BadCall(s, n) ==
    /\ n.type = "function"
    /\ ~\E f \in C10Allowed(s) :
            /\ EqualFold(f.name, n.Name)
            /\ f.min <= Len(n.Args)
            /\ Len(n.Args) <= f.max

C10BadValue(s, n) ==
    /\ n.type = "value"
    /\ n.Kind = "NamedValue"
    /\ ~\E v \in C10Variables(s) : EqualFold(v, n.Value.s)

C10Accepted == checkErrors.errs = <<>>

\* C10: an expression is accepted only if every function call in it names
\* an allowed function (a built-in or a signature of the context, matched
\* case-insensitively) with an argument count inside the declared range and
\* every named value in it is a variable of the context; every call and
\* every named value that violates this is reported as an error.
C10_StaticCheck ==
    pc = "done" =>
        \A n \in C10Subtrees(checkedExpr) :
            (C10BadCall(checkNode, n) \/ C10BadValue(checkNode, n)) =>
                /\ ~C10Accepted
                /\ Len(checkNode.Context) > 0 =>
                      \E i \in 1..Len(checkErrors.errs) :
                          checkErrors.errs[i].Name =
                              (IF n.type = "function" THEN n.Name ELSE n.Value.s)

-----------------------------------------------------------------------------
(* C11: the number of parameters of case *)

\* a call of case has been checked at a site whose context declares
\* case(3,MAX)
C11Case ==
    /\ pc = "done"
    /\ checkedExpr \in CaseCalls
    /\ \E i \in 1..Len(checkNode.Context) :
            /\ checkNode.Context[i].entry = "function"
            /\ checkNode.Context[i].name = fnCase

\* C11: validation rejects a call of case with an even number of
\* parameters ("expected odd number of parameters for case got N"),
\* rejects one with fewer than 3 ("missing parameters for case expected
\* >= 3 got N"), and accepts every odd number of at least 3
C11_CaseArity ==
    C11Case =>
        LET n == Len(checkedExpr.Args)
            messages == {checkErrors.errs[i].Message : i \in 1..Len(checkErrors.errs)}
        IN  IF n >= 3 /\ n % 2 = 1 THEN checkErrors.errs = <<>>
            ELSE /\ checkErrors.errs # <<>>
                 /\ n >= 3 => messages = {"expected odd number of parameters"}
                 /\ n % 2 = 1 => messages = {"missing parameters"}
                 /\ messages \subseteq {"expected odd number of parameters",
                                        "missing parameters"}

-----------------------------------------------------------------------------
(* Specification SpecDoc: EvaluateYamlNode, an unrestricted pass and a    *)
(* restricted pass over the same document                                 *)

MaxLen == 2

nameV == <<"v">>

\* a schema: a root mapping with a string (n), an expression string (i), a
\* sequence (l) whose items may be a string or a sequence, a loose mapping
\* (e) and a one-of (o)
Definitions ==
    "root" :> [Definition EXCEPT !.Mapping = MappingDefinition(
                  <<"n">> :> MappingProperty("str", FALSE)
                    @@ <<"i">> :> MappingProperty("ifexpr", FALSE)
                    @@ <<"l">> :> MappingProperty("list", FALSE)
                    @@ <<"e">> :> MappingProperty("env", FALSE)
                    @@ <<"o">> :> MappingProperty("oneof", FALSE), "")]
    @@ "str" :> [Definition EXCEPT
                  !.String = StringDefinition(<<>>, FALSE),
                  !.Context = <<ContextVariable(nameG), ContextVariable(nameV)>>]
    @@ "ifexpr" :> [Definition EXCEPT
                  !.String = StringDefinition(<<>>, TRUE),
                  !.Context = <<ContextVariable(nameG), ContextFunction(fnAlways, 0, 0)>>]
    @@ "list" :> [Definition EXCEPT !.Sequence = SequenceDefinition("item")]
    @@ "item" :> [Definition EXCEPT
                  !.String = StringDefinition(<<>>, FALSE),
                  !.OneOf = [nil |-> FALSE, names |-> <<"sequence", "string">>],
                  !.Context = <<ContextVariable(nameG)>>]
    @@ "env" :> [Definition EXCEPT !.Mapping = MappingDefinition(<<>>, "string")]
    @@ "oneof" :> [Definition EXCEPT
                  !.OneOf = [nil |-> FALSE, names |-> <<"string", "sequence">>],
                  !.Context = <<ContextVariable(nameG)>>]

\* &schema.Node{Definition: name, Schema: schema}, as a caller builds it
RootNode(name) == SchemaNode(Definitions, name, <<>>, TRUE, FALSE)

\* v2.GetFunctions(): the keys of the registry
Registry ==
    {<<"f", "r", "o", "m", "j", "s", "o", "n">>, <<"t", "o", "j", "s", "o", "n">>,
     fnContains, <<"s", "t", "a", "r", "t", "s", "w", "i", "t", "h">>,
     <<"e", "n", "d", "s", "w", "i", "t", "h">>, fnFormat, fnJoin, fnCase}

vGithub ==
    Obj(keyA :> Str(keyA)
          @@ <<"l">> :> Arr(<<Str(keyA), Str(keyB)>>)
          @@ <<"e">> :> Arr(<<>>))

DocVariables ==
    {<<>>,
     nameG :> vGithub,
     nameG :> vGithub @@ nameV :> Obj(<<>>),
     nameG :> vGithub @@ nameV :> Obj(<<>>) @@ <<"z">> :> Null}

DocContexts ==
    {[nil |-> FALSE, Variables |-> v, Functions |-> Registry] : v \in DocVariables}
        \cup {[nil |-> FALSE, Variables |-> nameG :> vGithub @@ nameV :> Obj(<<>>),
               Functions |-> {}]}

Dot(x, p) == BinaryNode(".", x, PropertyName(p))

DocTrees ==
    {NamedValue(nameG), NamedValue(nameV), NamedValue(nameU), NamedValue(<<"z">>),
     NamedValue(nameInsert), Literal(Str(keyA)), Literal(Num(11)),
     Dot(NamedValue(nameG), keyA), Dot(NamedValue(nameG), <<"l">>),
     Dot(NamedValue(nameG), <<"e">>),
     BinaryNode("[", Dot(NamedValue(nameG), <<"l">>), Literal(NaN)),
     FunctionNode(fnCase, <<Literal(Bool(TRUE)), NamedValue(nameG), Literal(Num(0))>>),
     FunctionNode(fnCase, <<Literal(Num(1)), Literal(Num(1)), Literal(Num(1))>>),
     FunctionNode(<<"n", "o">>, <<>>)}

Texts == {<<>>, Text(keyA)} \cup {<<Expr(t)>> : t \in DocTrees}

Scalars == {ScalarNode(tag, t) : tag \in {"!!str", "!!expr"}, t \in Texts}

Plain(chars) == ScalarNode("!!str", Text(chars))
Template(tag, tree) == ScalarNode(tag, <<Expr(tree)>>)

\* the elements of the sequences: text, templates that give a string, a
\* sequence, an empty sequence or are deferred, and a sequence
Elements ==
    {Plain(keyA), SequenceNode(<<Plain(keyB)>>)}
        \cup {Template(tag, t) :
                tag \in {"!!str", "!!expr"},
                t \in {Dot(NamedValue(nameG), keyA), Dot(NamedValue(nameG), <<"l">>),
                       Dot(NamedValue(nameG), <<"e">>), NamedValue(nameU)}}

Sequences == {SequenceNode(c) : c \in SeqsUpTo(Elements, MaxLen)}

\* the pairs of the mappings: a property with its value, a property the
\* schema does not have, and the insert directive
Pairs ==
    {<<Plain(<<"n">>), v>> :
        v \in {Plain(keyA), Template("!!str", NamedValue(nameG)),
               Template("!!str", Dot(NamedValue(nameG), keyA)),
               Template("!!expr", Dot(NamedValue(nameG), keyA))}}
        \cup {<<Plain(<<"i">>), Template("!!str", Dot(NamedValue(nameG), keyA))>>,
              <<Plain(<<"l">>), SequenceNode(<<Template("!!str", Dot(NamedValue(nameG), <<"l">>)),
                                               Plain(keyA)>>)>>,
              <<Plain(<<"e">>), MappingNode(<<Plain(keyB),
                                              Template("!!str", Dot(NamedValue(nameG), keyA))>>)>>,
              <<Plain(<<"o">>), Template("!!expr", Dot(NamedValue(nameG), <<"l">>))>>,
              <<Plain(<<"x">>), Template("!!str", Dot(NamedValue(nameG), keyA))>>,
              <<Template("!!str", NamedValue(nameInsert)),
                MappingNode(<<Plain(<<"n">>), Plain(keyA)>>)>>,
              <<Template("!!str", NamedValue(nameInsert)), Plain(keyA)>>}

Mappings ==
    {MappingNode(<<>>)} \cup {MappingNode(p) : p \in Pairs}
        \cup {MappingNode(p \o q) : p, q \in Pairs}

\* a document with the schema node it is evaluated at
Inputs ==
    {[doc |-> d, snode |-> n] :
        d \in Scalars,
        n \in {Nil, RootNode("str"), RootNode("ifexpr"), RootNode("item"),
               RootNode("oneof"), RootNode("string"),
               childNode(RootNode("root"), "str"),
               childNode(RootNode("list"), "item")}}
        \cup {[doc |-> d, snode |-> n] :
                d \in Sequences, n \in {RootNode("list"), RootNode("oneof")}}
        \cup {[doc |-> d, snode |-> n] :
                d \in Mappings, n \in {RootNode("root"), RootNode("env")}}

InitDoc ==
    /\ pc = "ready"
    /\ \E i \in Inputs : doc = i.doc /\ schemaNode = i.snode
    /\ evaluator \in {ExpressionEvaluator(r, c) : r \in BOOLEAN, c \in DocContexts}
    /\ outcome = [st |-> "none", err |-> "", pass |-> 0]
    /\ before = doc
    /\ left = Idle /\ right = Idle /\ equal = Idle
    /\ root = Idle /\ ctx = Idle /\ result = Idle
    /\ checkedExpr = Idle /\ checkNode = Idle /\ checkErrors = Idle

\* ee.EvaluateYamlNode(ctx, &node, snode): on a nil error the caller goes
\* on with the node, a panic ends the process
EvaluateDoc ==
    /\ pc \in {"ready", "again"}
    /\ \E o \in EvaluateYamlNode(evaluator, doc, schemaNode) :
        /\ outcome' = [st |-> o.st, err |-> o.err, pass |-> outcome.pass + 1]
        /\ doc' = o.node
        /\ pc' = CASE o.st = "panic" -> "crashed"
                   [] o.st = "error" -> "failed"
                   [] OTHER -> IF evaluator.RestrictEval THEN "done" ELSE "evaluated"
    /\ before' = doc
    /\ UNCHANGED <<schemaNode, evaluator>>
    /\ UNCHANGED <<left, right, equal, root, ctx, result, checkedExpr, checkNode, checkErrors>>

\* ee.RestrictEval = true and new Variables in the evaluation context,
\* between the passes
Restrict ==
    /\ pc = "evaluated"
    /\ \E c \in DocContexts : evaluator' = ExpressionEvaluator(TRUE, c)
    /\ pc' = "again"
    /\ UNCHANGED <<doc, schemaNode, outcome, before>>
    /\ UNCHANGED <<left, right, equal, root, ctx, result, checkedExpr, checkNode, checkErrors>>

NextDoc == EvaluateDoc \/ Restrict

SpecDoc == InitDoc /\ [][NextDoc]_vars

-----------------------------------------------------------------------------
(* C5: when an unrestricted pass evaluates a scalar and when it defers it *)

\* an unrestricted pass has run on a scalar that holds an expression, at a
\* string site that is not an expression-string
C5Case ==
    /\ pc \in {"evaluated", "failed", "crashed"}
    /\ ~evaluator.RestrictEval
    /\ before.Kind = "scalar"
    /\ \E i \in 1..Len(before.Value) : before.Value[i].seg = "expr"
    /\ schemaNode # Nil
    /\ GetDefinition(schemaNode.Schema, schemaNode.Definition).String # Nil
    /\ ~GetDefinition(schemaNode.Schema, schemaNode.Definition).String.IsExpression

C5Tree == before.Value[1].tree

C5NamedValues ==
    {n.Value.s : n \in {m \in C10Subtrees(C5Tree) : m.type = "value" /\ m.Kind = "NamedValue"}}

C5Called == {n.Name : n \in {m \in C10Subtrees(C5Tree) : m.type = "function"}}

C5HasFunction(name) ==
    \E f \in evaluator.EvaluationContext.Functions : EqualFold(f, name)

C5HasVariable(name) ==
    \E k \in DOMAIN evaluator.EvaluationContext.Variables : EqualFold(k, name)

C5HasValue(name) ==
    \E k \in DOMAIN evaluator.EvaluationContext.Variables :
        EqualFold(k, name) /\ evaluator.EvaluationContext.Variables[k] # Null

C5Deferred == outcome.st = "ok" /\ doc = [before EXCEPT !.Tag = "!!expr"]

\* the functions every site has, and the variables and functions its
\* definition lists
C5SiteFunctions ==
    {fnContains, fnEndsWith, fnFormat, fnJoin, fnStartsWith, fnToJson, fnFromJson}
        \cup {schemaNode.Context[i].name :
                i \in {j \in 1..Len(schemaNode.Context) :
                         schemaNode.Context[j].entry = "function"}}

C5SiteVariables ==
    {schemaNode.Context[i].name :
        i \in {j \in 1..Len(schemaNode.Context) : schemaNode.Context[j].entry = "variable"}}

C5AllPresent ==
    /\ \A n \in C5NamedValues \cup C5SiteVariables : C5HasValue(n)
    /\ \A f \in C5Called \cup C5SiteFunctions : C5HasFunction(f)

\* C5 as stated: in unrestricted mode a scalar with an expression at a
\* string site that is no expression-string is deferred (its value kept,
\* its tag !!expr) exactly when a named value or a function its expression
\* refers to is missing from Variables or Functions, and is evaluated
\* otherwise
C5_AsStated ==
    C5Case =>
        (C5Deferred <=> ~(/\ \A n \in C5NamedValues : C5HasVariable(n)
                          /\ \A f \in C5Called : C5HasFunction(f)))

\* C5, amended: the scalar is deferred exactly when a named value or a
\* function of its expression, or a variable or a function of the context
\* of its site, built-in functions included, is missing (a variable that
\* is null counts as missing); otherwise the expression is evaluated, and
\* either the node is replaced by the encoded result, or the pass returns
\* the error of the evaluation or of the validation of the result, or the
\* evaluation panics
C5_Deferral ==
    C5Case =>
        /\ C5Deferred <=> ~C5AllPresent
        /\ ~C5Deferred =>
            \E o \in Evaluate(evaluator.EvaluationContext, C5Tree) :
                CASE o.st = "ok" ->
                        \/ outcome.st = "ok" /\ doc = EncodeValue(o.val)
                        \/ outcome.st = "error" /\ outcome.err = "schema" /\ doc = before
                  [] o.st = "error" ->
                        outcome.st = "error" /\ outcome.err = o.err /\ doc = before
                  [] o.st = "panic" -> outcome.st = "panic"
                  [] OTHER -> outcome.st = "error"

\* a scalar whose expression refers to nothing that is missing is deferred
\* for a variable of the context of its site
C5_Witness ==
    /\ C5Case
    /\ C5Deferred
    /\ before.Tag = "!!str"
    /\ C5NamedValues = {nameG}
    /\ C5HasValue(nameG)
    /\ ~C5HasValue(nameV)

-----------------------------------------------------------------------------
(* C6: what a pass with RestrictEval leaves as it was *)

\* a pass with RestrictEval has run
C6Case ==
    /\ pc \in {"done", "failed", "crashed"}
    /\ evaluator.RestrictEval

C6IsDeferred(n) == n.Kind = "scalar" /\ n.Tag = "!!expr"

\* d is b with nothing but scalars tagged !!expr rewritten; such a scalar
\* that is an element of a sequence stands for a run of at least `least`
\* elements of the result
RECURSIVE C6Frame(_, _, _)
RECURSIVE C6Run(_, _, _)
C6Run(bs, ds, least) ==
    IF bs = <<>> THEN ds = <<>>
    ELSE IF C6IsDeferred(Head(bs))
    THEN \E n \in least..Len(ds) : C6Run(Tail(bs), SubSeq(ds, n + 1, Len(ds)), least)
    ELSE /\ ds # <<>>
         /\ C6Frame(Head(bs), Head(ds), least)
         /\ C6Run(Tail(bs), Tail(ds), least)
C6Frame(b, d, least) ==
    CASE b.Kind = "scalar" -> C6IsDeferred(b) \/ d = b
      [] b.Kind = "mapping" ->
            /\ d.Kind = "mapping"
            /\ Len(d.Content) = Len(b.Content)
            /\ \A i \in 1..Len(b.Content) : C6Frame(b.Content[i], d.Content[i], least)
      [] b.Kind = "sequence" ->
            /\ d.Kind = "sequence"
            /\ C6Run(b.Content, d.Content, least)

\* C6 as stated: a pass with RestrictEval rewrites only scalars tagged
\* !!expr; every other scalar keeps value and tag, and every pair of a
\* mapping and every element of a sequence of the input is still there, in
\* the same order
C6_AsStated == C6Case => C6Frame(before, doc, 1)

\* C6, amended: a pass with RestrictEval rewrites only scalars tagged
\* !!expr; every other scalar keeps value and tag and every pair and every
\* other element stays, in the same order, but an element tagged !!expr
\* that evaluates to a sequence is replaced by the items of that sequence
\* and is gone when the sequence is empty; a pass that fails leaves the
\* document as it was
C6_RestrictedFrame ==
    C6Case =>
        /\ C6Frame(before, doc, 0)
        /\ outcome.st # "ok" => doc = before

\* a restricted pass over a sequence of a deferred scalar that evaluates to
\* the empty sequence and a scalar that is not tagged: the first is gone,
\* the second is kept with its expression
C6_Witness ==
    /\ C6Case
    /\ outcome.st = "ok"
    /\ before = SequenceNode(<<Template("!!expr", Dot(NamedValue(nameG), <<"e">>)),
                               Template("!!str", Dot(NamedValue(nameG), <<"l">>))>>)
    /\ doc = SequenceNode(<<Template("!!str", Dot(NamedValue(nameG), <<"l">>))>>)

-----------------------------------------------------------------------------
(* C7: the second, restricted pass evaluates what the first deferred *)

\* the restricted pass has run on a scalar that the unrestricted pass left
\* tagged !!expr, at a site that takes a string and nothing else, with all
\* that canEvaluate asks for present
C7Case ==
    /\ outcome.pass = 2
    /\ pc \in {"done", "failed", "crashed"}
    /\ evaluator.RestrictEval
    /\ before.Kind = "scalar"
    /\ before.Tag = "!!expr"
    /\ \E i \in 1..Len(before.Value) : before.Value[i].seg = "expr"
    /\ schemaNode # Nil
    /\ schemaNode.Definition \in {"str", "string"}
    /\ C5AllPresent

\* a string site takes a scalar
C7Legal(n) == n.Kind = "scalar"

\* C7: a scalar that the unrestricted pass deferred is evaluated by the
\* restricted pass once its variables are there: the node becomes the
\* encoded raw result when that is legal for the definition of the scalar,
\* and EvaluateYamlNode returns an error, the document left as it was,
\* when it is not; an error or a panic of the evaluation is the outcome of
\* the pass
C7_TwoPass ==
    C7Case =>
        \E o \in Evaluate(evaluator.EvaluationContext, C5Tree) :
            CASE o.st = "ok" ->
                    IF C7Legal(EncodeValue(o.val))
                    THEN outcome.st = "ok" /\ doc = EncodeValue(o.val)
                    ELSE outcome.st = "error" /\ outcome.err = "schema" /\ doc = before
              [] o.st = "error" ->
                    outcome.st = "error" /\ outcome.err = o.err /\ doc = before
              [] o.st = "panic" -> outcome.st = "panic"
              [] OTHER -> outcome.st = "error"

\* `${{ g }}`, deferred by the first pass, is an object in the second: the
\* pass returns the error of the validation
C7_Witness ==
    /\ C7Case
    /\ before = Template("!!expr", NamedValue(nameG))
    /\ outcome.st = "error"
    /\ outcome.err = "schema"
    /\ doc = before

-----------------------------------------------------------------------------
(* C8: the insert directive *)

C8IsInsert(k) == k.Kind = "scalar" /\ MatchesInsert(k.Value)

C8InsertPairs(m) ==
    {i \in 1..(Len(m.Content) \div 2) : C8IsInsert(m.Content[2 * i - 1])}

\* a pass has run on a mapping with a pair whose key is the directive
C8Case ==
    /\ pc \in {"evaluated", "done", "failed", "crashed"}
    /\ before.Kind = "mapping"
    /\ C8InsertPairs(before) # {}

\* the keys of a mapping
C8Keys(content) == [i \in 1..(Len(content) \div 2) |-> content[2 * i - 1]]

\* the keys after the splice: the keys of the value in the place of the
\* directive
RECURSIVE C8Spliced(_)
C8Spliced(content) ==
    IF content = <<>> THEN <<>>
    ELSE (IF C8IsInsert(content[1]) THEN C8Keys(content[2].Content) ELSE <<content[1]>>)
            \o C8Spliced(SubSeq(content, 3, Len(content)))

\* C8: a pair whose key matches `${{ insert }}` is replaced by the pairs of
\* its value, in its place, the pairs around it kept in order; when the
\* value is no mapping the evaluator returns an error and the document is
\* as it was
C8_InsertDirective ==
    C8Case =>
        IF \A i \in C8InsertPairs(before) : before.Content[2 * i].Kind = "mapping"
        THEN /\ outcome.st = "ok"
             /\ doc.Kind = "mapping"
             /\ C8Keys(doc.Content) = C8Spliced(before.Content)
        ELSE outcome.st = "error" /\ doc = before

-----------------------------------------------------------------------------
(* C9: a sequence made by evaluation is merged into its parent *)

\* a pass has gone through a sequence without an error
C9Case ==
    /\ pc \in {"evaluated", "done"}
    /\ before.Kind = "sequence"
    /\ schemaNode # Nil

\* the items an element leaves in the result: those of the sequence it
\* evaluated to when it was none itself, and else the one it evaluated to
C9Items(element, o) ==
    LET ev == IF o.ret # Nil THEN o.ret ELSE o.node
    IN  IF element.Kind # "sequence" /\ ev.Kind = "sequence" THEN ev.Content ELSE <<ev>>

\* the contents the elements can leave, one after the other
RECURSIVE C9Flat(_)
C9Flat(elements) ==
    IF elements = <<>> THEN {<<>>}
    ELSE {C9Items(Head(elements), o) \o rest :
            o \in {r \in evaluateYamlNodeInternal(evaluator, Head(elements),
                                                  GetNestedNode(schemaNode, <<<<"*">>>>)) :
                     r.st = "ok"},
            rest \in C9Flat(Tail(elements))}

\* C9: in a sequence, an element that was no sequence and evaluates to one
\* is replaced by the items of that sequence, in place and in order; an
\* element that was a sequence stays nested; the other elements keep their
\* place, so the length of the result is the sum over the elements of the
\* number of items merged, or 1
C9_SequenceMerge ==
    C9Case =>
        /\ doc.Kind = "sequence"
        /\ doc.Content \in C9Flat(before.Content)

\* [`${{ g.l }}`, a, [b]] with g.l = [a, b] becomes [a, b, a, [b]]
C9_Witness ==
    /\ C9Case
    /\ ~evaluator.RestrictEval
    /\ before.Content = <<Template("!!str", Dot(NamedValue(nameG), <<"l">>)),
                          SequenceNode(<<Plain(keyB)>>)>>
    /\ doc.Content = <<Plain(keyA), Plain(keyB), SequenceNode(<<Plain(keyB)>>)>>

-----------------------------------------------------------------------------
(* Specification SpecValidate: Node.UnmarshalYAML of a document            *)

MaxPairs == 2

\* a schema: mappings with a required property, without and with a loose
\* value type, mappings with other properties, a sequence of strings, and
\* one-ofs over them
ValidationDefinitions ==
    "strict" :> [Definition EXCEPT !.Mapping = MappingDefinition(
                    keyA :> MappingProperty("string", TRUE)
                      @@ keyB :> MappingProperty("sequence", FALSE), "")]
    @@ "loose" :> [Definition EXCEPT !.Mapping = MappingDefinition(
                    keyA :> MappingProperty("string", TRUE), "string")]
    @@ "plain" :> [Definition EXCEPT !.Mapping = MappingDefinition(
                    keyB :> MappingProperty("string", FALSE), "")]
    @@ "other" :> [Definition EXCEPT !.Mapping = MappingDefinition(
                    <<"x">> :> MappingProperty("string", FALSE), "")]
    @@ "nested" :> [Definition EXCEPT !.Mapping = MappingDefinition(
                    keyA :> MappingProperty("strict", FALSE), "alt")]
    @@ "seqs" :> [Definition EXCEPT !.Sequence = SequenceDefinition("string")]
    @@ "alt" :> [Definition EXCEPT
                    !.OneOf = [nil |-> FALSE, names |-> <<"strict", "plain", "other">>]]
    @@ "alt2" :> [Definition EXCEPT
                    !.OneOf = [nil |-> FALSE, names |-> <<"string", "seqs", "strict">>]]
    @@ "alt3" :> [Definition EXCEPT
                    !.OneOf = [nil |-> FALSE, names |-> <<"other", "loose">>]]

ValidationNodes ==
    {SchemaNode(ValidationDefinitions, name, c, c = <<>>, FALSE) :
        name \in DOMAIN ValidationDefinitions,
        c \in {<<>>, <<ContextVariable(nameG)>>}}

ValidatedKeys ==
    {Plain(keyA), Plain(keyUpperA), Plain(keyB), Plain(<<"x">>),
     Template("!!str", NamedValue(nameInsert)),
     Template("!!str", Literal(Str(keyA))),
     Template("!!str", FunctionNode(<<"n", "o">>, <<>>))}

ValidatedValues == {Plain(keyA), SequenceNode(<<>>)}

RECURSIVE Flatten(_)
Flatten(pairs) == IF pairs = <<>> THEN <<>> ELSE Head(pairs) \o Flatten(Tail(pairs))

ValidatedDocs ==
    {MappingNode(Flatten(pairs)) :
        pairs \in SeqsUpTo({<<k, v>> : k \in ValidatedKeys, v \in ValidatedValues}, MaxPairs)}
        \cup {MappingNode(<<Plain(keyA), MappingNode(<<Plain(<<"x">>), Plain(keyA)>>)>>),
              Plain(keyA), SequenceNode(<<Plain(keyA)>>),
              SequenceNode(<<MappingNode(<<>>)>>)}

InitValidate ==
    /\ pc = "validate"
    /\ doc \in ValidatedDocs
    /\ schemaNode \in ValidationNodes
    /\ outcome = [st |-> "none", err |-> Nil]
    /\ before = Idle /\ evaluator = Idle
    /\ left = Idle /\ right = Idle /\ equal = Idle
    /\ root = Idle /\ ctx = Idle /\ result = Idle
    /\ checkedExpr = Idle /\ checkNode = Idle /\ checkErrors = Idle

\* (&schema.Node{...}).UnmarshalYAML(&node)
Validate ==
    /\ pc = "validate"
    /\ outcome' = [st |-> "validated", err |-> UnmarshalYAML(schemaNode, doc)]
    /\ pc' = "validated"
    /\ UNCHANGED <<doc, schemaNode, before, evaluator>>
    /\ UNCHANGED <<left, right, equal, root, ctx, result, checkedExpr, checkNode, checkErrors>>

NextValidate == Validate

SpecValidate == InitValidate /\ [][NextValidate]_vars

-----------------------------------------------------------------------------
(* C12: checkMapping *)

\* a mapping has been validated at a site whose definition is a mapping
C12Case ==
    /\ pc = "validated"
    /\ doc.Kind = "mapping"
    /\ GetDefinition(schemaNode.Schema, schemaNode.Definition).Mapping # Nil

C12Mapping == GetDefinition(schemaNode.Schema, schemaNode.Definition).Mapping

C12Pairs == 1..(Len(doc.Content) \div 2)

C12Key(i) == doc.Content[2 * i - 1]

\* the key is an expression or the insert directive
C12IsExpr(i) == \E j \in 1..Len(C12Key(i).Value) : C12Key(i).Value[j].seg = "expr"

C12Name(i) == C12Key(i).Value[1].chars

C12Declared(i) == C12Name(i) \in DOMAIN C12Mapping.Properties

C12Type(i) ==
    IF C12Declared(i) THEN C12Mapping.Properties[C12Name(i)].Type
    ELSE C12Mapping.LooseValueType

\* the key equals an earlier key, ignoring case
C12Duplicate(i) ==
    \E j \in C12Pairs : j < i /\ ~C12IsExpr(j) /\ EqualFold(C12Name(j), C12Name(i))

C12Unknown(i) == ~C12Declared(i) /\ C12Mapping.LooseValueType = ""

C12BadValue(i) ==
    /\ ~C12Unknown(i)
    /\ UnmarshalYAML(childNode(WithContext(schemaNode), C12Type(i)), doc.Content[2 * i]) # Nil

C12Missing ==
    {p \in DOMAIN C12Mapping.Properties :
        /\ C12Mapping.Properties[p].Required
        /\ ~\E i \in C12Pairs : ~C12IsExpr(i) /\ C12Name(i) = p}

C12Errors == IF outcome.err = Nil THEN <<>> ELSE outcome.err.col.Errors

C12Reported(message) ==
    Cardinality({j \in 1..Len(C12Errors) : C12Errors[j].Message = message})

\* C12: a mapping without an expression or insert key is accepted only if
\* no two keys are equal ignoring case, every key is a declared property
\* or the definition has a loose value type, every required property is
\* there and every value validates under the type of its property; the
\* missing properties are reported exactly when no key is an expression
\* or the insert directive; and all violations of a mapping are reported
\* together
C12_CheckMapping ==
    C12Case =>
        LET plain == {i \in C12Pairs : ~C12IsExpr(i)}
        IN  /\ plain = C12Pairs =>
                (outcome.err = Nil <=>
                    /\ \A i \in plain : ~C12Duplicate(i) /\ ~C12Unknown(i) /\ ~C12BadValue(i)
                    /\ C12Missing = {})
            /\ {C12Errors[j].Name : j \in {n \in 1..Len(C12Errors) :
                                             C12Errors[n].Kind = "MissingProperty"}}
                    = IF plain = C12Pairs THEN C12Missing ELSE {}
            /\ C12Reported("duplicate property")
                    = Cardinality({i \in plain : C12Duplicate(i)})
            /\ C12Reported("unknown property")
                    = Cardinality({i \in plain : C12Unknown(i)})
            /\ C12Reported("error found in value of key") + C12Reported("value")
                    = Cardinality({i \in plain : C12BadValue(i)})

-----------------------------------------------------------------------------
(* C13: checkOneOf *)

\* a node that is no expression has been validated at a one-of with at
\* least one alternative
C13Case ==
    /\ pc = "validated"
    /\ GetDefinition(schemaNode.Schema, schemaNode.Definition).OneOf # Nil
    /\ GetDefinition(schemaNode.Schema, schemaNode.Definition).OneOf.names # <<>>
    /\ ExprTrees(ValueOf(doc)) = <<>>

C13Names == GetDefinition(schemaNode.Schema, schemaNode.Definition).OneOf.names

\* the error of alternative i, and its errors as a collection
C13Error(i) == UnmarshalYAML(childNode(WithContext(schemaNode), C13Names[i]), doc)

C13Collection(i) == AsSchemaValidationErrorCollection(C13Error(i))

C13Collected == {i \in 1..Len(C13Names) : C13Collection(i) # Nil}

C13Invalid(i) ==
    Cardinality({j \in 1..Len(C13Collection(i).Errors) :
                    C13Collection(i).Errors[j].Kind = "InvalidProperty"})

\* the alternatives with the fewest invalid properties; with last, one
\* without any ranks after all that have some
C13Best(last) ==
    LET Rank(i) == IF last /\ C13Invalid(i) = 0 THEN MaxInt ELSE C13Invalid(i)
    IN  {i \in C13Collected : \A j \in C13Collected : Rank(i) <= Rank(j)}

C13Returned ==
    {outcome.err.col.Collections[j] : j \in 1..Len(outcome.err.col.Collections)}

C13Succeeds == outcome.err = Nil <=> \E i \in 1..Len(C13Names) : C13Error(i) = Nil

-----------------------------------------------------------------------------
(* Matrix strategy: model.ExpandStrategy *)

keyInclude == <<"i", "n", "c", "l", "u", "d", "e">>
keyExclude == <<"e", "x", "c", "l", "u", "d", "e">>

\* the job matrix limit
MatrixLimit == 256

\* the decimal digits of a plain integer scalar
RECURSIVE DecimalValue(_, _)
DecimalValue(chars, acc) ==
    IF chars = <<>> THEN acc
    ELSE DecimalValue(Tail(chars),
                      acc * 10 + CASE Head(chars) = "0" -> 0 [] Head(chars) = "1" -> 1
                                   [] Head(chars) = "2" -> 2 [] Head(chars) = "3" -> 3
                                   [] Head(chars) = "4" -> 4 [] Head(chars) = "5" -> 5
                                   [] Head(chars) = "6" -> 6 [] Head(chars) = "7" -> 7
                                   [] Head(chars) = "8" -> 8 [] OTHER -> 9)

\* yaml.Node.Decode(&any) of a scalar, by its resolved tag
Decode(node) ==
    CASE node.Tag = "!!int" -> Num(DecimalValue(KeyOf(node.Value), 0))
      [] node.Tag = "!!bool" -> Bool(KeyOf(node.Value) = <<"t", "r", "u", "e">>)
      [] node.Tag = "!!null" -> Null
      [] OTHER -> Str(KeyOf(node.Value))

scalarEquals(a, b) == AbstractEqual(Decode(a), Decode(b))

\* map[string]yaml.Node filled from the pairs of a mapping node, under the
\* key or the lower-cased key: a later pair replaces an earlier one
ContentMap(node, lower) ==
    LET n == Len(node.Content) \div 2
        Key(i) == IF lower THEN [j \in 1..Len(KeyOf(node.Content[2 * i - 1].Value)) |->
                                    FoldChar(KeyOf(node.Content[2 * i - 1].Value)[j])]
                  ELSE KeyOf(node.Content[2 * i - 1].Value)
        Last(k) == CHOOSE i \in 1..n : Key(i) = k /\ \A j \in (i + 1)..n : Key(j) # k
    IN  [k \in {Key(i) : i \in 1..n} |-> node.Content[2 * Last(k)]]

ScalarKeys(node) ==
    \A i \in 1..(Len(node.Content) \div 2) : node.Content[2 * i - 1].Kind = "scalar"

RECURSIVE DeepEquals(_, _, _)
deepMapEquals(a, b, partialMatch) ==
    IF ~ScalarKeys(a) \/ ~ScalarKeys(b) THEN FALSE
    ELSE LET mapA == ContentMap(a, TRUE)
             mapB == ContentMap(b, TRUE)
             sizeA == Cardinality(DOMAIN mapA)
             sizeB == Cardinality(DOMAIN mapB)
         IN  IF (partialMatch /\ sizeA < sizeB) \/ (~partialMatch /\ sizeA # sizeB)
             THEN FALSE
             ELSE \A k \in DOMAIN mapB :
                    k \in DOMAIN mapA /\ DeepEquals(mapA[k], mapB[k], partialMatch)

deepSequenceEquals(a, b, partialMatch) ==
    IF (partialMatch /\ Len(a.Content) < Len(b.Content))
        \/ (~partialMatch /\ Len(a.Content) # Len(b.Content))
    THEN FALSE
    ELSE \A i \in 1..Len(b.Content) : DeepEquals(a.Content[i], b.Content[i], partialMatch)

DeepEquals(a, b, partialMatch) ==
    IF a.Kind = "scalar" /\ b.Kind = "scalar" THEN scalarEquals(a, b)
    ELSE IF a.Kind = "mapping" /\ b.Kind = "mapping" THEN deepMapEquals(a, b, partialMatch)
    ELSE IF a.Kind = "sequence" /\ b.Kind = "sequence"
         THEN deepSequenceEquals(a, b, partialMatch)
    ELSE FALSE

nodesEqual(a, b) == DeepEquals(a, b, TRUE)

\* row[key] = val on a copy of the row
SetKey(row, key, val) == [k \in DOMAIN row \cup {key} |-> IF k = key THEN val ELSE row[k]]

\* a dimension that extends every row by the first value only
ExtendFirst(flatMatrix, key, values) ==
    [n \in 1..(Len(flatMatrix) * Len(values)) |->
        SetKey(flatMatrix[((n - 1) \div Len(values)) + 1], key, values[1])]

\* one matrix dimension: every row extended by every value of the key
Extend(flatMatrix, key, values) ==
    [n \in 1..(Len(flatMatrix) * Len(values)) |->
        SetKey(flatMatrix[((n - 1) \div Len(values)) + 1], key,
               values[((n - 1) % Len(values)) + 1])]

\* the loop over strategy.Matrix; keys is the order in which Go hands out
\* the keys of the dimensions (include and exclude are only stored, at
\* whatever place of the order they come)
RECURSIVE ExpandMatrix(_, _, _)
ExpandMatrix(matrix, keys, flatMatrix) ==
    IF keys = <<>> THEN flatMatrix
    ELSE IF Head(keys) \in {keyInclude, keyExclude}
         THEN ExpandMatrix(matrix, Tail(keys), flatMatrix)
    ELSE ExpandMatrix(matrix, Tail(keys), Extend(flatMatrix, Head(keys), matrix[Head(keys)]))

\* a match that takes a key the row lacks for matched
excludeMatchAbsent(row, exMap) ==
    \A k \in DOMAIN exMap : k \in DOMAIN row => nodesEqual(row[k], exMap[k])

\* the exclude entry matches the row
excludeMatch(row, exMap) ==
    \A k \in DOMAIN exMap : k \in DOMAIN row /\ nodesEqual(row[k], exMap[k])

RECURSIVE handleExclude(_, _)
handleExclude(flatMatrix, exclude) ==
    IF exclude = <<>> THEN [err |-> "", flatMatrix |-> flatMatrix]
    ELSE IF Head(exclude).Kind # "mapping"
         THEN [err |-> "exclude entry is not a mapping node", flatMatrix |-> flatMatrix]
    ELSE IF ~ScalarKeys(Head(exclude))
         THEN [err |-> "exclude key is not scalar", flatMatrix |-> flatMatrix]
    ELSE handleExclude(SelectSeq(flatMatrix,
                                 LAMBDA row : ~excludeMatch(row, ContentMap(Head(exclude), FALSE))),
                       Tail(exclude))

\* the include entry agrees with the row on every key they share
includeMatch(row, incMap) ==
    \A k \in DOMAIN incMap : k \in DOMAIN row => nodesEqual(row[k], incMap[k])

\* the keys of the entry that the row lacks, added to the row
AddMissing(row, incMap) ==
    [k \in DOMAIN row \cup DOMAIN incMap |-> IF k \in DOMAIN row THEN row[k] ELSE incMap[k]]

\* jobTraceWriter.Info("Add missing keys %v", incMap) on a nil writer
includeTrace(jobTraceWriter, matched) == ~jobTraceWriter /\ matched

RECURSIVE handleInclude(_, _, _, _)
handleInclude(flatMatrix, includeMatrix, include, jobTraceWriter) ==
    IF include = <<>>
    THEN [st |-> "ok", err |-> "", flatMatrix |-> flatMatrix, includeMatrix |-> includeMatrix]
    ELSE IF Head(include).Kind # "mapping"
         THEN [st |-> "error", err |-> "include entry is not a mapping node",
               flatMatrix |-> flatMatrix, includeMatrix |-> includeMatrix]
    ELSE IF ~ScalarKeys(Head(include))
         THEN [st |-> "error", err |-> "include key is not scalar",
               flatMatrix |-> flatMatrix, includeMatrix |-> includeMatrix]
    ELSE LET incMap == ContentMap(Head(include), FALSE)
             matched == \E i \in 1..Len(flatMatrix) : includeMatch(flatMatrix[i], incMap)
         IN  IF includeTrace(jobTraceWriter, matched)
             THEN [st |-> "panic", err |-> "nil pointer dereference",
                   flatMatrix |-> flatMatrix, includeMatrix |-> includeMatrix]
             ELSE handleInclude(
                    [i \in 1..Len(flatMatrix) |->
                        IF includeMatch(flatMatrix[i], incMap)
                        THEN AddMissing(flatMatrix[i], incMap) ELSE flatMatrix[i]],
                    IF matched THEN includeMatrix ELSE Append(includeMatrix, incMap),
                    Tail(include), jobTraceWriter)

StrategyResult(flatMatrix, includeMatrix, failFast, matrixKeys) ==
    [st |-> "ok", err |-> "", FlatMatrix |-> flatMatrix, IncludeMatrix |-> includeMatrix,
     FailFast |-> failFast, MatrixKeys |-> matrixKeys]

StrategyError(st, err) ==
    [st |-> st, err |-> err, FlatMatrix |-> <<>>, IncludeMatrix |-> <<>>,
     FailFast |-> FALSE, MatrixKeys |-> {}]

\* a limit that refuses the matrix of exactly MatrixLimit rows
exceedsLimitAt(flatMatrix) == Len(flatMatrix) >= MatrixLimit

\* len(flatMatrix) > 256
exceedsLimit(flatMatrix) == Len(flatMatrix) > MatrixLimit

\* the rows left by exclude, a single empty row when none is
Reseed(flatMatrix) == IF flatMatrix = <<>> THEN <<<<>>>> ELSE flatMatrix

\* ExpandStrategy(strategy, jobTraceWriter), the matrix iterated in the
\* order keys
ExpandStrategy(strategy, keys, jobTraceWriter) ==
    IF strategy = Nil THEN StrategyResult(<<<<>>>>, <<>>, TRUE, {})
    ELSE LET matrix == strategy.Matrix
             include == IF keyInclude \in DOMAIN matrix THEN matrix[keyInclude] ELSE <<>>
             exclude == IF keyExclude \in DOMAIN matrix THEN matrix[keyExclude] ELSE <<>>
             excluded == handleExclude(ExpandMatrix(matrix, keys, <<<<>>>>), exclude)
             flatMatrix == Reseed(excluded.flatMatrix)
             included == handleInclude(flatMatrix, <<>>, include, jobTraceWriter)
         IN  IF excluded.err # "" THEN StrategyError("error", excluded.err)
             ELSE IF exceedsLimit(flatMatrix)
                  THEN StrategyError("error", "matrix contains more than 256 entries")
             ELSE IF included.st # "ok" THEN StrategyError(included.st, included.err)
             ELSE StrategyResult(included.flatMatrix, included.includeMatrix,
                                 strategy.FailFast, DOMAIN flatMatrix[1])

-----------------------------------------------------------------------------
(* Specification SpecStrategy: ExpandStrategy on small and on large matrices *)

\* longest list of values of a small matrix dimension
MaxAxisLen == 2

IntNode(n) == ScalarNode("!!int", Text(Digits(n)))

AxisValues == {IntNode(1), Plain(keyA), Plain(keyUpperA)}

\* the values 1..n
BigAxis(n) == [i \in 1..n |-> IntNode(i)]

SecondAxis == {<<Plain(keyA)>>, <<Plain(keyA), IntNode(1)>>}

AxisMaps ==
    {<<>>}
        \cup {keyA :> l : l \in SeqsUpTo(AxisValues, MaxAxisLen)}
        \cup {keyB :> m : m \in SecondAxis}
        \cup {keyA :> l @@ keyB :> m : l \in SeqsUpTo(AxisValues, MaxAxisLen), m \in SecondAxis}

\* matrices at the limit and one row or two beyond it
BigAxisMaps ==
    {keyA :> BigAxis(MatrixLimit), keyA :> BigAxis(MatrixLimit + 1),
     keyA :> BigAxis(MatrixLimit \div 2) @@ keyB :> <<Plain(keyA), IntNode(1)>>,
     keyA :> BigAxis((MatrixLimit \div 2) + 1) @@ keyB :> <<Plain(keyA), IntNode(1)>>}

ExcludeEntries ==
    {MappingNode(<<Plain(keyA), Plain(<<"1">>)>>),
     MappingNode(<<Plain(keyA), Plain(keyUpperA), Plain(keyB), Plain(keyA)>>),
     MappingNode(<<Plain(<<"x">>), Plain(keyA)>>)}

IncludeEntries ==
    {MappingNode(<<Plain(keyA), Plain(keyUpperA), Plain(<<"x">>), Plain(keyA)>>),
     MappingNode(<<Plain(<<"x">>), Plain(<<"1">>)>>),
     MappingNode(<<Plain(keyA), Plain(keyB), Plain(<<"x">>), Plain(keyA)>>)}

\* lists of up to two entries, and the lists of one more entry: an empty
\* mapping, or a node that is no mapping
EntryLists(entries) ==
    {<<>>, <<MappingNode(<<>>)>>, <<Plain(keyA)>>}
        \cup {<<e>> : e \in entries} \cup {<<e, f>> : e \in entries, f \in entries}

BigEntryLists(entries) == {<<>>} \cup {<<e>> : e \in entries}

\* strategy.Matrix: the dimensions, and the include and exclude lists that
\* are not empty
Matrix(axes, include, exclude) ==
    [k \in DOMAIN axes \cup (IF include = <<>> THEN {} ELSE {keyInclude})
                       \cup (IF exclude = <<>> THEN {} ELSE {keyExclude}) |->
        IF k = keyInclude THEN include ELSE IF k = keyExclude THEN exclude ELSE axes[k]]

Matrices ==
    {Matrix(axes, include, exclude) :
        axes \in AxisMaps, include \in EntryLists(IncludeEntries),
        exclude \in EntryLists(ExcludeEntries)}
        \cup {Matrix(axes, include, exclude) :
                axes \in BigAxisMaps, include \in BigEntryLists(IncludeEntries),
                exclude \in BigEntryLists(ExcludeEntries)}

Strategies == {Nil} \cup {[Matrix |-> m, FailFast |-> FALSE] : m \in Matrices}

InitStrategy ==
    /\ pc = "expand"
    /\ doc \in Strategies
    /\ ctx \in BOOLEAN          \* jobTraceWriter: whether a writer is given
    /\ outcome = StrategyError("none", "")
    /\ before = Idle /\ evaluator = Idle /\ schemaNode = Idle
    /\ left = Idle /\ right = Idle /\ equal = Idle
    /\ root = Idle /\ result = Idle
    /\ checkedExpr = Idle /\ checkNode = Idle /\ checkErrors = Idle

\* ExpandStrategy(&strategy, jobTraceWriter)
Expand ==
    /\ pc = "expand"
    /\ \E keys \in Perms(IF doc = Nil THEN {} ELSE DOMAIN doc.Matrix \ {keyInclude, keyExclude}) :
            outcome' = ExpandStrategy(doc, keys, ctx)
    /\ pc' = "expanded"
    /\ UNCHANGED <<doc, ctx, schemaNode, before, evaluator>>
    /\ UNCHANGED <<left, right, equal, root, result, checkedExpr, checkNode, checkErrors>>

NextStrategy == Expand

SpecStrategy == InitStrategy /\ [][NextStrategy]_vars

-----------------------------------------------------------------------------
(* C14: exclude *)

\* the dimensions of the matrix, and its lists of entries
C14Axes == DOMAIN doc.Matrix \ {keyInclude, keyExclude}

C14Exclude == IF keyExclude \in DOMAIN doc.Matrix THEN doc.Matrix[keyExclude] ELSE <<>>

C14Include == IF keyInclude \in DOMAIN doc.Matrix THEN doc.Matrix[keyInclude] ELSE <<>>

\* the key/value pairs of an entry
C14Pairs(entry) ==
    {<<KeyOf(entry.Content[2 * i - 1].Value), entry.Content[2 * i]>> :
        i \in 1..(Len(entry.Content) \div 2)}

\* the row is kept: no exclude entry has every pair matched by it
C14Kept(row) ==
    \A i \in 1..Len(C14Exclude) :
        \E p \in C14Pairs(C14Exclude[i]) :
            \/ p[1] \notin DOMAIN row
            \/ ~AbstractEqual(Decode(row[p[1]]), Decode(p[2]))

\* the product rows that are kept, in their order
C14Left(keys) == SelectSeq(ExpandMatrix(doc.Matrix, keys, <<<<>>>>), C14Kept)

\* the strategy was expanded with success
C14Case == pc = "expanded" /\ doc # Nil /\ outcome.st = "ok"

\* a row of the result without the keys that include added
C14Row(i) == [k \in outcome.MatrixKeys |-> outcome.FlatMatrix[i][k]]

\* C14: after exclude the flat matrix holds exactly the rows of the
\* Cartesian product for which no exclude entry has every key/value pair
\* matched (a key the row lacks never matches, scalars compare with
\* abstract equality), in their original order, and a single empty row
\* when no row is left
C14_Exclude ==
    C14Case =>
        \E keys \in Perms(C14Axes) :
            [i \in 1..Len(outcome.FlatMatrix) |-> C14Row(i)] =
                IF C14Left(keys) = <<>> THEN <<<<>>>> ELSE C14Left(keys)

\* exclude entries took some rows of the product and left others
C14_Witness ==
    /\ C14Case
    /\ C14Exclude # <<>>
    /\ outcome.MatrixKeys # {}
    /\ \E keys \in Perms(C14Axes) :
            Len(outcome.FlatMatrix) < Len(ExpandMatrix(doc.Matrix, keys, <<<<>>>>))

-----------------------------------------------------------------------------
(* C15: include *)

\* the flat matrix handed to include
C15Flat(keys) == IF C14Left(keys) = <<>> THEN <<<<>>>> ELSE C14Left(keys)

\* the row agrees with the entry on every key they share
C15Agrees(row, entry) ==
    \A p \in C14Pairs(entry) :
        p[1] \in DOMAIN row => AbstractEqual(Decode(row[p[1]]), Decode(p[2]))

C15Keys(entry) == {p[1] : p \in C14Pairs(entry)}

C15Value(entry, k) == (CHOOSE p \in C14Pairs(entry) : p[1] = k)[2]

\* the row with the keys of the entry it lacks
C15Merged(row, entry) ==
    [k \in DOMAIN row \cup C15Keys(entry) |->
        IF k \in DOMAIN row THEN row[k] ELSE C15Value(entry, k)]

\* the entries from the i-th on, taken in order
RECURSIVE C15Process(_, _, _)
C15Process(rows, only, i) ==
    IF i > Len(C14Include) THEN [rows |-> rows, only |-> only]
    ELSE IF \E r \in 1..Len(rows) : C15Agrees(rows[r], C14Include[i])
         THEN C15Process([r \in 1..Len(rows) |->
                            IF C15Agrees(rows[r], C14Include[i])
                            THEN C15Merged(rows[r], C14Include[i]) ELSE rows[r]],
                         only, i + 1)
    ELSE C15Process(rows, Append(only, [k \in C15Keys(C14Include[i]) |->
                                            C15Value(C14Include[i], k)]), i + 1)

\* a strategy whose entries are mappings and whose rows are within the
\* limit has been expanded
C15Case ==
    /\ pc = "expanded" /\ doc # Nil
    /\ C14Include # <<>>
    /\ \A i \in 1..Len(C14Include) : C14Include[i].Kind = "mapping"
    /\ \A i \in 1..Len(C14Exclude) : C14Exclude[i].Kind = "mapping"
    /\ \A keys \in Perms(C14Axes) : Len(C15Flat(keys)) <= MatrixLimit

\* C15: the include entries are taken in order; an entry that agrees with
\* at least one flat row on every key they share gives every such row the
\* keys it lacks and changes no value, any other entry goes to the
\* include-only list, and the number of flat rows stays
C15_Include ==
    C15Case =>
        /\ outcome.st = "ok"
        /\ \E keys \in Perms(C14Axes) :
                /\ outcome.FlatMatrix = C15Process(C15Flat(keys), <<>>, 1).rows
                /\ outcome.IncludeMatrix = C15Process(C15Flat(keys), <<>>, 1).only
                /\ Len(outcome.FlatMatrix) = Len(C15Flat(keys))

-----------------------------------------------------------------------------
(* C16: the limit of 256 rows *)

\* the rows that are left after exclude
C16Rows == Len(C14Left(CHOOSE keys \in Perms(C14Axes) : TRUE))

\* a strategy has been expanded, and its exclude entries were mappings
C16Case ==
    /\ pc = "expanded" /\ doc # Nil
    /\ \A i \in 1..Len(C14Exclude) : C14Exclude[i].Kind = "mapping"

\* C16: ExpandStrategy returns 'matrix contains more than 256 entries'
\* exactly when more than 256 rows are left after exclude, and every
\* successful result has between 1 and 256 flat rows
C16_Limit ==
    /\ C16Case =>
        ((outcome.st = "error" /\ outcome.err = "matrix contains more than 256 entries")
            <=> C16Rows > MatrixLimit)
    /\ (pc = "expanded" /\ outcome.st = "ok") =>
            (Len(outcome.FlatMatrix) >= 1 /\ Len(outcome.FlatMatrix) <= MatrixLimit)

\* exclude took the one row beyond the limit, and the matrix is accepted
C16_Witness ==
    /\ C16Case
    /\ C14Exclude # <<>>
    /\ outcome.st = "ok"
    /\ Len(outcome.FlatMatrix) = MatrixLimit

-----------------------------------------------------------------------------
(* C17: the Cartesian product *)

RECURSIVE C17Product(_)
C17Product(keys) ==
    IF keys = <<>> THEN 1 ELSE Len(doc.Matrix[Head(keys)]) * C17Product(Tail(keys))

\* the product of the sizes of the dimensions
C17Size == C17Product(CHOOSE keys \in Perms(C14Axes) : TRUE)

\* every choice of one value for each dimension
C17Combinations ==
    {c \in [C14Axes -> UNION {{doc.Matrix[k][j] : j \in 1..Len(doc.Matrix[k])} : k \in C14Axes}] :
        \A k \in C14Axes : \E j \in 1..Len(doc.Matrix[k]) : doc.Matrix[k][j] = c[k]}

\* the rows of the result that are the combination
C17Rows(c) == {i \in 1..Len(outcome.FlatMatrix) : outcome.FlatMatrix[i] = c}

\* the choices of one place in the list of each dimension that give it
RECURSIVE C17Places(_, _)
C17Places(c, keys) ==
    IF keys = <<>> THEN 1
    ELSE Cardinality({j \in 1..Len(doc.Matrix[Head(keys)]) : doc.Matrix[Head(keys)][j] = c[Head(keys)]})
            * C17Places(c, Tail(keys))

\* a matrix without include and exclude has been expanded
C17Case ==
    /\ pc = "expanded" /\ doc # Nil
    /\ keyInclude \notin DOMAIN doc.Matrix
    /\ keyExclude \notin DOMAIN doc.Matrix

\* C17 as stated: the rows are as many as the product of the sizes, each
\* row has the keys of the dimensions, and every combination of one value
\* for each dimension appears once
C17_AsStated ==
    C17Case =>
        /\ outcome.st = "ok"
        /\ Len(outcome.FlatMatrix) = C17Size
        /\ \A i \in 1..Len(outcome.FlatMatrix) : DOMAIN outcome.FlatMatrix[i] = C14Axes
        /\ \A c \in C17Combinations : Cardinality(C17Rows(c)) = 1

\* C17, amended: when the product of the sizes is between 1 and 256 the
\* rows are as many as the product, each row has the keys of the
\* dimensions, and every choice of one place in the list of each dimension
\* gives one row; when a dimension is empty the result is a single empty
\* row, and beyond 256 the expansion fails
C17_Product ==
    C17Case =>
        IF C17Size = 0
        THEN outcome.st = "ok" /\ outcome.FlatMatrix = <<<<>>>>
        ELSE IF C17Size > MatrixLimit THEN outcome.st = "error"
        ELSE /\ outcome.st = "ok"
             /\ Len(outcome.FlatMatrix) = C17Size
             /\ \A i \in 1..Len(outcome.FlatMatrix) :
                    /\ DOMAIN outcome.FlatMatrix[i] = C14Axes
                    /\ outcome.FlatMatrix[i] \in C17Combinations
             /\ \A c \in C17Combinations :
                    Cardinality(C17Rows(c)) =
                        C17Places(c, CHOOSE keys \in Perms(C14Axes) : TRUE)

\* two dimensions of more than one value were expanded
C17_Witness ==
    /\ C17Case
    /\ outcome.st = "ok"
    /\ Cardinality(C14Axes) = 2
    /\ \A k \in C14Axes : Len(doc.Matrix[k]) > 1
    /\ Len(outcome.FlatMatrix) = C17Size

-----------------------------------------------------------------------------
(* functions.Format *)

\* strings.IndexByte(s[from:], c): the place of the first c, counted from
\* from, or -1
IndexByte(s, from, c) ==
    IF \E p \in (from + 1)..Len(s) : s[p] = c
    THEN (CHOOSE p \in (from + 1)..Len(s) : s[p] = c /\ \A q \in (from + 1)..(p - 1) : s[q] # c)
            - from - 1
    ELSE -1

\* s[pos], with pos counted from 0
ByteAt(s, pos) == s[pos + 1]

IsDigit(c) == c \in {"0", "1", "2", "3", "4", "5", "6", "7", "8", "9"}

\* the first place from pos on that holds no digit
RECURSIVE DigitsEnd(_, _)
DigitsEnd(s, pos) ==
    IF pos < Len(s) /\ IsDigit(ByteAt(s, pos)) THEN DigitsEnd(s, pos + 1) ELSE pos

readArgIndex(s, pos) ==
    IF DigitsEnd(s, pos) = pos THEN [idx |-> 0, endIdx |-> 0, ok |-> FALSE]
    ELSE [idx |-> DecimalValue(SubSeq(s, pos + 1, DigitsEnd(s, pos)), 0),
          endIdx |-> DigitsEnd(s, pos) - 1, ok |-> TRUE]

readFormatSpecifiers(s, pos) ==
    IF pos >= Len(s) THEN [spec |-> <<>>, r |-> 0, ok |-> FALSE]
    ELSE IF ByteAt(s, pos) = "}" THEN [spec |-> <<>>, r |-> pos, ok |-> TRUE]
    ELSE IF ByteAt(s, pos) # ":" THEN [spec |-> <<>>, r |-> 0, ok |-> FALSE]
    ELSE IF IndexByte(s, pos + 1, "}") < 0 THEN [spec |-> <<>>, r |-> 0, ok |-> FALSE]
    ELSE [spec |-> SubSeq(s, pos + 2, pos + 1 + IndexByte(s, pos + 1, "}")),
          r |-> pos + 1 + IndexByte(s, pos + 1, "}"), ok |-> TRUE]

Formatted(st, val) == [st |-> st, val |-> val]

\* sb.WriteString(formatStr[from:to]) at an escaped brace
escaped(formatStr, from, to) == SubSeq(formatStr, from + 1, to)

\* the loop of Format at place i; seen holds the places the loop was at
\* (the loop never ends when it comes to one of them again)
RECURSIVE FormatLoop(_, _, _, _, _)
FormatLoop(formatStr, args, i, sb, seen) ==
    IF i >= Len(formatStr) THEN Formatted("ok", sb)
    ELSE IF i \in seen THEN Formatted("loop", <<>>)
    ELSE LET lbrace == IndexByte(formatStr, i, "{")
             rbrace == IndexByte(formatStr, i, "}")
             l == i + lbrace
             arg == readArgIndex(formatStr, l + 1)
             spec == readFormatSpecifiers(formatStr, arg.endIdx + 1)
         IN  IF lbrace >= 0 /\ (rbrace < 0 \/ rbrace > lbrace)
             THEN IF l + 1 < Len(formatStr) /\ ByteAt(formatStr, l + 1) = "{"
                  THEN FormatLoop(formatStr, args, l + 2,
                                  sb \o SubSeq(formatStr, i + 1, l) \o escaped(formatStr, i, l + 2),
                                  seen \cup {i})
                  ELSE IF rbrace > lbrace + 1
                  THEN IF ~arg.ok \/ ~spec.ok THEN Formatted("error", <<>>)
                       ELSE IF arg.idx >= Len(args) THEN Formatted("range", <<>>)
                       ELSE FormatLoop(formatStr, args, spec.r + 1,
                                       sb \o SubSeq(formatStr, i + 1, l) \o args[arg.idx + 1],
                                       seen \cup {i})
                  ELSE Formatted("error", <<>>)
             ELSE IF rbrace >= 0
             THEN IF rbrace + 1 < Len(formatStr) /\ ByteAt(formatStr, rbrace + 1) = "}"
                  THEN IF i > rbrace + 2 THEN Formatted("panic", <<>>)
                       ELSE FormatLoop(formatStr, args, rbrace + 2,
                                       sb \o escaped(formatStr, i, rbrace + 2), seen \cup {i})
                  ELSE Formatted("error", <<>>)
             ELSE Formatted("ok", sb \o SubSeq(formatStr, i + 1, Len(formatStr)))

\* Format(formatStr, args...): "ok" with the text, "error" for an invalid
\* format string, "range" for an argument index out of range, "panic" for
\* slice bounds out of range, "loop" when the call never returns
Format(formatStr, args) == FormatLoop(formatStr, args, 0, <<>>, {})

-----------------------------------------------------------------------------
(* Specification SpecFormat: Format on short format strings *)

\* longest format string
MaxFormatLen == 5

FormatChars == {"{", "}", "0", ":", "a"}

FormatStrings ==
    SeqsUpTo(FormatChars, MaxFormatLen)
        \cup {<<"{", "1", "}">>, <<"{", "0", "}", "{", "1", "}">>,
              <<"x", "}", "}", "{", "0", "}", "}", "}">>}

FormatArgs == {<<>>, <<<<"x">>>>, <<<<"{">>, <<"y", "z">>>>}

InitFormat ==
    /\ pc = "format"
    /\ left \in FormatStrings
    /\ right \in FormatArgs
    /\ result = Formatted("none", <<>>)
    /\ before = Idle /\ evaluator = Idle /\ schemaNode = Idle /\ doc = Idle
    /\ outcome = Idle /\ equal = Idle /\ root = Idle /\ ctx = Idle
    /\ checkedExpr = Idle /\ checkNode = Idle /\ checkErrors = Idle

\* functions.Format(formatStr, args...)
FormatCall ==
    /\ pc = "format"
    /\ result' = Format(left, right)
    /\ pc' = "formatted"
    /\ UNCHANGED <<left, right, doc, ctx, schemaNode, before, evaluator, outcome>>
    /\ UNCHANGED <<equal, root, checkedExpr, checkNode, checkErrors>>

NextFormat == FormatCall

SpecFormat == InitFormat /\ [][NextFormat]_vars

-----------------------------------------------------------------------------
(* C18: Format *)

\* the format string read as the claim reads it, from place p (counted
\* from 1): doubled braces, placeholders {i} and {i:spec}, other text
RECURSIVE C18Read(_, _, _)
C18Read(s, args, p) ==
    IF p > Len(s) THEN [st |-> "ok", val |-> <<>>]
    ELSE IF s[p] \in {"{", "}"} /\ p < Len(s) /\ s[p + 1] = s[p]
         THEN LET rest == C18Read(s, args, p + 2)
              IN  IF rest.st = "ok" THEN [st |-> "ok", val |-> <<s[p]>> \o rest.val] ELSE rest
    ELSE IF s[p] = "}" THEN [st |-> "malformed", val |-> <<>>]
    ELSE IF s[p] = "{"
         THEN LET close == IF \E q \in (p + 1)..Len(s) : s[q] = "}"
                           THEN CHOOSE q \in (p + 1)..Len(s) :
                                    s[q] = "}" /\ \A r \in (p + 1)..(q - 1) : s[r] # "}"
                           ELSE 0
                  inner == SubSeq(s, p + 1, close - 1)
                  colon == IF \E q \in 1..Len(inner) : inner[q] = ":"
                           THEN CHOOSE q \in 1..Len(inner) :
                                    inner[q] = ":" /\ \A r \in 1..(q - 1) : inner[r] # ":"
                           ELSE Len(inner) + 1
                  digits == SubSeq(inner, 1, colon - 1)
                  rest == C18Read(s, args, close + 1)
              IN  IF close = 0 \/ digits = <<>> \/ \E q \in 1..Len(digits) : ~IsDigit(digits[q])
                  THEN [st |-> "malformed", val |-> <<>>]
                  ELSE IF rest.st = "malformed" THEN rest
                  ELSE IF DecimalValue(digits, 0) >= Len(args) THEN [st |-> "range", val |-> <<>>]
                  ELSE IF rest.st = "ok"
                       THEN [st |-> "ok", val |-> args[DecimalValue(digits, 0) + 1] \o rest.val]
                  ELSE rest
    ELSE LET rest == C18Read(s, args, p + 1)
         IN  IF rest.st = "ok" THEN [st |-> "ok", val |-> <<s[p]>> \o rest.val] ELSE rest

\* a format string of doubled braces, placeholders and other text has been
\* formatted
C18Case == pc = "formatted" /\ C18Read(left, right, 1).st # "malformed"

\* C18: Format replaces every {i} and {i:spec} by the string of args[i]
\* and every doubled brace by the one brace, copies all other text, and
\* returns an error when an index is not below the number of arguments
C18_Format ==
    C18Case =>
        IF C18Read(left, right, 1).st = "range" THEN result.st = "range"
        ELSE result = Formatted("ok", C18Read(left, right, 1).val)

-----------------------------------------------------------------------------
(* Specification SpecContains: contains(l, r) on canonical values *)

nameL == <<"l">>
nameR == <<"r">>

ContainsCollections ==
    CanonicalValues
        \cup {vArr, vObj, Arr(<<Str(keyUpperA), Null>>), Arr(<<Arr(<<>>), Bool(TRUE)>>),
              Filtered(<<Str(<<"1">>), Str(<<"a", "x">>)>>)}

ContainsElements == Primitives \cup {Arr(<<>>), Obj(<<>>)}

\* a literal for a primitive, a named value for anything else (null is
\* written as a literal: a variable that holds null counts as undefined)
ContainsArg(v, name) ==
    IF v.k \in {"null", "bool", "num", "str"} THEN Literal(v) ELSE NamedValue(name)

InitContains ==
    /\ pc = "contains"
    /\ left \in ContainsCollections
    /\ right \in ContainsElements
    /\ root = FunctionNode(fnContains, <<ContainsArg(left, nameL), ContainsArg(right, nameR)>>)
    /\ ctx = [nil |-> FALSE, Variables |-> (nameL :> left @@ nameR :> right),
              Functions |-> {fnContains}]
    /\ result = NoResult
    /\ equal = Idle /\ doc = Idle /\ schemaNode = Idle /\ evaluator = Idle
    /\ outcome = Idle /\ before = Idle
    /\ checkedExpr = Idle /\ checkNode = Idle /\ checkErrors = Idle

\* Evaluator.Evaluate of contains(l, r)
EvaluateContains ==
    /\ pc = "contains"
    /\ result' \in Evaluate(ctx, root)
    /\ pc' = "contained"
    /\ UNCHANGED <<left, right, equal, root, ctx, doc, schemaNode, evaluator, outcome,
                   before, checkedExpr, checkNode, checkErrors>>

NextContains == EvaluateContains

SpecContains == InitContains /\ [][NextContains]_vars

-----------------------------------------------------------------------------
(* C19: contains *)

C19Case == pc = "contained"

\* a is a part of b
C19Substring(a, b) == \E i \in 0..(Len(b) - Len(a)) : SubSeq(b, i + 1, i + Len(a)) = a

C19Folded(v) == [i \in 1..Len(ConvertToString(v)) |-> FoldChar(ConvertToString(v)[i])]

\* C19: contains(arr, x) is true exactly when an element of arr is
\* abstract-equal to x, contains(str, y) with a first argument that is no
\* collection is true exactly when the case-folded y is a part of the
\* case-folded str, and an object as first argument yields false
C19_Contains ==
    C19Case =>
        /\ result.st = "ok"
        /\ result.val.k = "bool"
        /\ result.val.b =
            IF left.k \in {"arr", "filtered"}
            THEN \E i \in 1..Len(left.items) : AbstractEqual(left.items[i], right)
            ELSE IF left.k = "obj" THEN FALSE
            ELSE C19Substring(C19Folded(right), C19Folded(left))

\* a string holds another only when the case of the letters is left aside
C19_Witness ==
    /\ C19Case
    /\ left.k = "str" /\ right.k = "str"
    /\ ~C19Substring(right.s, left.s)
    /\ result.st = "ok" /\ result.val = Bool(TRUE)

-----------------------------------------------------------------------------
(* The parser: internal/expr Parse *)

Token(kind, raw) == [Kind |-> kind, Raw |-> raw]

OpToken(tok, startPos) == [Token |-> tok, StartPos |-> startPos]

precedence(tkn) ==
    CASE tkn.Kind = "StartGroup" -> 20
      [] tkn.Kind \in {"StartIndex", "StartParameters", "Dereference"} -> 19
      [] tkn.Kind = "LogicalOperator" ->
            (CASE tkn.Raw = "!" -> 16
               [] tkn.Raw \in {">", ">=", "<", "<="} -> 11
               [] tkn.Raw \in {"==", "!="} -> 10
               [] tkn.Raw = "&&" -> 6
               [] tkn.Raw = "||" -> 5
               [] OTHER -> 0)
      [] tkn.Kind \in {"EndGroup", "EndIndex", "EndParameters", "Separator"} -> 1
      [] OTHER -> 0

\* the stacks of the parser, and the error of the step that failed
Parser(ops, vals, err) == [ops |-> ops, vals |-> vals, err |-> err]

Front(seq, n) == SubSeq(seq, 1, Len(seq) - n)

popOp(p) ==
    IF p.ops = <<>> THEN p
    ELSE LET op == p.ops[Len(p.ops)].Token
             ops == Front(p.ops, 1)
             n == Len(p.vals)
         IN  IF op.Kind = "LogicalOperator" /\ op.Raw = "!"
             THEN IF n < 1 THEN Parser(ops, p.vals, "insufficient operands")
                  ELSE Parser(ops, Append(Front(p.vals, 1), UnaryNode(op.Raw, p.vals[n])), "")
             ELSE IF op.Kind = "LogicalOperator"
             THEN IF n < 2 THEN Parser(ops, p.vals, "insufficient operands")
                  ELSE Parser(ops, Append(Front(p.vals, 2),
                                          BinaryNode(op.Raw, p.vals[n - 1], p.vals[n])), "")
             ELSE IF op.Kind = "Dereference"
             THEN IF n < 2 THEN Parser(ops, p.vals, "insufficient operands")
                  ELSE Parser(ops, Append(Front(p.vals, 2),
                                          BinaryNode(".", p.vals[n - 1], p.vals[n])), "")
             ELSE Parser(ops, p.vals, "")

IsOpener(kind) == kind \in {"StartGroup", "StartIndex", "StartParameters", "Separator"}

\* pushOp: the operator on top of the stack is popped before t is pushed
drains(top, t) == precedence(top) >= precedence(t) /\ ~IsOpener(top.Kind)

\* pushOp; an error of popOp is a panic
RECURSIVE pushOp(_, _)
pushOp(p, t) ==
    IF p.ops # <<>> /\ drains(p.ops[Len(p.ops)].Token, t)
    THEN IF popOp(p).err # "" THEN [popOp(p) EXCEPT !.err = "panic"]
         ELSE pushOp(popOp(p), t)
    ELSE Parser(Append(p.ops, OpToken(t, 0)), p.vals, "")

pushFunc(p, t, start) == Parser(Append(p.ops, OpToken(t, start)), p.vals, "")

pushValue(p, v) == Parser(p.ops, Append(p.vals, v), "")

RECURSIVE popGroup(_, _)
popGroup(p, kind) ==
    IF p.ops = <<>> THEN [p EXCEPT !.err = "mismatched parentheses"]
    ELSE IF p.ops[Len(p.ops)].Token.Kind = kind THEN p
    ELSE IF popOp(p).err # "" THEN popOp(p)
    ELSE popGroup(popOp(p), kind)

pushFuncValue(p) ==
    LET g == popGroup(p, "StartParameters")
        ops == Front(g.ops, 1)
    IN  IF g.err # "" THEN g
        ELSE IF ops = <<>> THEN Parser(ops, g.vals, "panic")
        ELSE IF ops[Len(ops)].Token.Kind # "Function"
        THEN Parser(ops, g.vals, "expected function token")
        ELSE LET fnTok == ops[Len(ops)]
                 start == IF Len(g.vals) > fnTok.StartPos THEN fnTok.StartPos ELSE Len(g.vals)
             IN  Parser(Front(ops, 1),
                        Append(SubSeq(g.vals, 1, start),
                               FunctionNode(fnTok.Token.Raw, SubSeq(g.vals, start + 1, Len(g.vals)))),
                        "")

\* the step of parse() for one token
parseToken(p, tok) ==
    CASE tok.Kind \in {"Number", "String", "Boolean", "Null"} ->
            pushValue(p, ValueNode(tok.Kind, tok.Raw))
      [] tok.Kind \in {"NamedValue", "PropertyName", "Wildcard"} ->
            pushValue(p, ValueNode(tok.Kind, Str(tok.Raw)))
      [] tok.Kind \in {"LogicalOperator", "Dereference"} -> pushOp(p, tok)
      [] tok.Kind = "Function" -> pushFunc(p, tok, Len(p.vals))
      [] tok.Kind \in {"StartParameters", "StartGroup", "StartIndex"} -> pushOp(p, tok)
      [] tok.Kind = "Separator" -> popGroup(p, "StartParameters")
      [] tok.Kind = "EndParameters" -> pushFuncValue(p)
      [] tok.Kind = "EndGroup" ->
            LET g == popGroup(p, "StartGroup")
            IN  IF g.err # "" THEN g ELSE Parser(Front(g.ops, 1), g.vals, "")
      [] tok.Kind = "EndIndex" ->
            LET g == popGroup(p, "StartIndex")
                n == Len(g.vals)
            IN  IF g.err # "" THEN g
                ELSE IF n < 2 THEN Parser(Front(g.ops, 1), g.vals, "panic")
                ELSE Parser(Front(g.ops, 1),
                            Append(Front(g.vals, 2), BinaryNode("[", g.vals[n - 1], g.vals[n])), "")

RECURSIVE popAll(_)
popAll(p) ==
    IF p.ops = <<>> \/ p.err # "" THEN p ELSE popAll(popOp(p))

Parsed(st, node, err) == [st |-> st, node |-> node, err |-> err]

\* Parser.parse on the tokens from pos on
RECURSIVE parse(_, _, _)
parse(tokens, pos, p) ==
    IF p.err = "panic" THEN Parsed("panic", Nil, p.err)
    ELSE IF p.err # "" THEN Parsed("error", Nil, p.err)
    ELSE IF pos <= Len(tokens) THEN parse(tokens, pos + 1, parseToken(p, tokens[pos]))
    ELSE IF popAll(p).err # "" THEN Parsed("error", Nil, popAll(p).err)
    ELSE IF Len(popAll(p).vals) # 1 THEN Parsed("error", Nil, "invalid expression")
    ELSE Parsed("ok", popAll(p).vals[1], "")

\* Parse, on the tokens the lexer hands over
Parse(tokens) == parse(tokens, 1, Parser(<<>>, <<>>, ""))

(* The lexer: the order of tokens it lets pass *)

ValueKinds == {"Null", "Boolean", "Number", "String", "PropertyName", "NamedValue"}

EndKinds == {"EndGroup", "EndParameters", "EndIndex", "Wildcard"}

\* Lexer.checkLastToken; last is "" when there is no token before
checkLastToken(last, kind, raw) ==
    LET opening == last \in {"Separator", "StartGroup", "StartParameters", "StartIndex",
                             "LogicalOperator"}
    IN  CASE kind = "StartGroup" -> last = "" \/ opening
          [] kind = "StartIndex" -> last \in EndKinds \cup {"PropertyName", "NamedValue"}
          [] kind = "StartParameters" -> last = "Function"
          [] kind \in {"EndGroup", "EndIndex", "Separator"} -> last \in EndKinds \cup ValueKinds
          [] kind = "EndParameters" -> last \in EndKinds \cup ValueKinds \cup {"StartParameters"}
          [] kind = "Wildcard" -> last \in {"StartIndex", "Dereference"}
          [] kind = "Dereference" -> last \in EndKinds \cup {"PropertyName", "NamedValue"}
          [] kind = "LogicalOperator" ->
                IF raw = "!" THEN last = "" \/ opening ELSE last \in EndKinds \cup ValueKinds
          [] kind \in {"Null", "Boolean", "Number", "String", "Function", "NamedValue"} ->
                last = "" \/ opening
          [] kind = "PropertyName" -> last = "Dereference"
          [] OTHER -> TRUE

\* the state of the lexer: the tokens it gave, and its stack of open tokens
Lexer(tokens, stack) == [tokens |-> tokens, stack |-> stack]

LastKind(l) == IF l.tokens = <<>> THEN "" ELSE l.tokens[Len(l.tokens)].Kind

StackTop(l) == IF l.stack = <<>> THEN "" ELSE l.stack[Len(l.stack)]

Operators == {"!", "<", "==", "&&", "||"}

\* the tokens Lexer.Next can give next: "(" opens parameters after a
\* function name and a group otherwise, ")" closes parameters when the
\* stack holds them on top and a group otherwise, "]" and "," are read
\* whatever the stack holds, a name is a property after ".", and a
\* function name is followed by "("
NextTokens(l) ==
    LET last == LastKind(l)
        candidates ==
            IF last = "Function" THEN {Token("StartParameters", "(")}
            ELSE {Token("StartGroup", "("), Token("StartIndex", "["), Token("Dereference", "."),
                  Token("EndIndex", "]"), Token("Separator", ","), Token("Wildcard", "*")}
                    \cup {Token("LogicalOperator", op) : op \in Operators}
                    \cup (IF StackTop(l) = "StartParameters"
                          THEN {Token("EndParameters", ")")} ELSE {Token("EndGroup", ")")})
                    \cup (IF last = "Dereference" THEN {Token("PropertyName", <<"p">>)}
                          ELSE {Token("NamedValue", keyA), Token("Function", <<"f">>)})
    IN  {t \in candidates : checkLastToken(last, t.Kind, t.Raw)}

\* Lexer.createToken
createToken(l, t) ==
    Lexer(Append(l.tokens, t),
          IF t.Kind \in {"StartGroup", "StartIndex", "StartParameters"}
          THEN Append(l.stack, t.Kind)
          ELSE IF t.Kind \in {"EndGroup", "EndIndex", "EndParameters"} /\ l.stack # <<>>
          THEN Front(l.stack, 1)
          ELSE l.stack)

-----------------------------------------------------------------------------
(* Specification SpecParse: Parse on the token sequences of the lexer *)

\* most tokens of an expression
MaxTokens == 6

RECURSIVE Lexed(_)
Lexed(n) ==
    IF n = 0 THEN {Lexer(<<>>, <<>>)}
    ELSE Lexed(n - 1)
            \cup UNION {{createToken(l, t) : t \in NextTokens(l)}
                            : l \in {x \in Lexed(n - 1) : Len(x.tokens) = n - 1}}

NamedA == Token("NamedValue", keyA)

Op(raw) == Token("LogicalOperator", raw)

\* longer expressions, with groups, indexes and parameter lists
LongExpressions ==
    {<<Token("StartGroup", "("), NamedA, Op("||"), NamedA, Token("EndGroup", ")"),
       Op("&&"), NamedA>>,
     <<NamedA, Op("&&"), Token("StartGroup", "("), NamedA, Op("||"), NamedA,
       Token("EndGroup", ")")>>,
     <<NamedA, Op("=="), NamedA, Token("StartIndex", "["), NamedA, Op("||"), NamedA,
       Token("EndIndex", "]")>>,
     <<NamedA, Op("&&"), Token("Function", <<"f">>), Token("StartParameters", "("),
       NamedA, Op("||"), NamedA, Token("Separator", ","), NamedA, Op("=="), NamedA,
       Token("EndParameters", ")")>>,
     <<Op("!"), NamedA, Token("Dereference", "."), Token("PropertyName", <<"p">>),
       Token("StartIndex", "["), NamedA, Token("EndIndex", "]"), Op("<"), NamedA,
       Op("=="), NamedA, Op("&&"), NamedA, Op("||"), NamedA>>,
     <<NamedA, Op("||"), NamedA, Op("&&"), NamedA, Op("=="), NamedA, Op("<"), Op("!"), NamedA>>,
     <<NamedA, Op("&&"), Op("!"), Op("!"), NamedA, Op("=="), NamedA>>}

\* the expressions: what the lexer gives that does not end in a function
\* name
TokenSequences ==
    {l.tokens : l \in {x \in Lexed(MaxTokens) : LastKind(x) # "Function"}}
        \cup LongExpressions

InitParse ==
    /\ pc = "parse"
    /\ left \in TokenSequences
    /\ result = Parsed("none", Nil, "")
    /\ right = Idle /\ equal = Idle /\ root = Idle /\ ctx = Idle
    /\ doc = Idle /\ schemaNode = Idle /\ evaluator = Idle /\ outcome = Idle /\ before = Idle
    /\ checkedExpr = Idle /\ checkNode = Idle /\ checkErrors = Idle

\* Parse(expression), from the tokens on
ParseCall ==
    /\ pc = "parse"
    /\ result' = Parse(left)
    /\ pc' = "parsed"
    /\ UNCHANGED <<left, right, equal, root, ctx, doc, schemaNode, evaluator, outcome,
                   before, checkedExpr, checkNode, checkErrors>>

NextParse == ParseCall

SpecParse == InitParse /\ [][NextParse]_vars

-----------------------------------------------------------------------------
(* C20: precedence *)

\* the tree of the claim, read from place pos on: r.ok, r.node and r.pos,
\* the place after the part that was read
C20Read(ok, node, pos) == [ok |-> ok, node |-> node, pos |-> pos]

C20Kind(toks, pos) == IF pos <= Len(toks) THEN toks[pos].Kind ELSE ""

C20Binary(toks, pos) ==
    C20Kind(toks, pos) = "LogicalOperator" /\ toks[pos].Raw # "!"

\* the level of a binary operator: || < && < (==, !=) < (<, <=, >, >=)
C20Level(raw) ==
    CASE raw = "||" -> 1 [] raw = "&&" -> 2 [] raw \in {"==", "!="} -> 3 [] OTHER -> 4

RECURSIVE C20Expr(_, _, _)
RECURSIVE C20Operators(_, _, _)
RECURSIVE C20Unary(_, _)
RECURSIVE C20Member(_, _)
RECURSIVE C20Args(_, _, _)

\* a primary: a name, a group, or a call
C20Primary(toks, pos) ==
    CASE C20Kind(toks, pos) = "NamedValue" ->
            C20Read(TRUE, ValueNode("NamedValue", Str(toks[pos].Raw)), pos + 1)
      [] C20Kind(toks, pos) = "StartGroup" ->
            LET inner == C20Expr(toks, pos + 1, 1)
            IN  IF inner.ok /\ C20Kind(toks, inner.pos) = "EndGroup"
                THEN C20Read(TRUE, inner.node, inner.pos + 1)
                ELSE C20Read(FALSE, Nil, pos)
      [] C20Kind(toks, pos) = "Function" /\ C20Kind(toks, pos + 1) = "StartParameters" ->
            IF C20Kind(toks, pos + 2) = "EndParameters"
            THEN C20Read(TRUE, FunctionNode(toks[pos].Raw, <<>>), pos + 3)
            ELSE LET args == C20Args(toks, pos + 2, <<>>)
                 IN  IF args.ok THEN C20Read(TRUE, FunctionNode(toks[pos].Raw, args.node), args.pos)
                     ELSE C20Read(FALSE, Nil, pos)
      [] OTHER -> C20Read(FALSE, Nil, pos)

\* the parameters of a call, up to the closing token
C20Args(toks, pos, args) ==
    LET arg == C20Expr(toks, pos, 1)
    IN  IF ~arg.ok THEN C20Read(FALSE, Nil, pos)
        ELSE IF C20Kind(toks, arg.pos) = "Separator"
        THEN C20Args(toks, arg.pos + 1, Append(args, arg.node))
        ELSE IF C20Kind(toks, arg.pos) = "EndParameters"
        THEN C20Read(TRUE, Append(args, arg.node), arg.pos + 1)
        ELSE C20Read(FALSE, Nil, pos)

\* member access after a primary, from the left
C20Member(toks, read) ==
    IF ~read.ok THEN read
    ELSE IF C20Kind(toks, read.pos) = "Dereference"
              /\ C20Kind(toks, read.pos + 1) = "PropertyName"
    THEN C20Member(toks, C20Read(TRUE,
            BinaryNode(".", read.node, ValueNode("PropertyName", Str(toks[read.pos + 1].Raw))),
            read.pos + 2))
    ELSE IF C20Kind(toks, read.pos) = "StartIndex"
    THEN LET index == C20Expr(toks, read.pos + 1, 1)
         IN  IF index.ok /\ C20Kind(toks, index.pos) = "EndIndex"
             THEN C20Member(toks, C20Read(TRUE, BinaryNode("[", read.node, index.node),
                                          index.pos + 1))
             ELSE C20Read(FALSE, Nil, read.pos)
    ELSE read

\* ! above the binary operators, below member access
C20Unary(toks, pos) ==
    IF C20Kind(toks, pos) = "LogicalOperator" /\ toks[pos].Raw = "!"
    THEN LET operand == C20Unary(toks, pos + 1)
         IN  IF operand.ok THEN C20Read(TRUE, UnaryNode("!", operand.node), operand.pos)
             ELSE operand
    ELSE C20Member(toks, C20Primary(toks, pos))

\* the binary operators of level min and above that follow lhs, from the
\* left
C20Operators(toks, lhs, min) ==
    IF ~lhs.ok THEN lhs
    ELSE IF C20Binary(toks, lhs.pos) /\ C20Level(toks[lhs.pos].Raw) >= min
    THEN LET rhs == C20Expr(toks, lhs.pos + 1, C20Level(toks[lhs.pos].Raw) + 1)
         IN  IF rhs.ok
             THEN C20Operators(toks, C20Read(TRUE, BinaryNode(toks[lhs.pos].Raw, lhs.node, rhs.node),
                                             rhs.pos), min)
             ELSE rhs
    ELSE lhs

C20Expr(toks, pos, min) == C20Operators(toks, C20Unary(toks, pos), min)

C20Tree == C20Expr(left, 1, 1)

\* an expression of names, operators, groups, indexes and calls has been
\* parsed
C20Case == pc = "parsed" /\ C20Tree.ok /\ C20Tree.pos = Len(left) + 1

\* C20: Parse builds the tree in which member access binds above ! above
\* the comparisons above == and != above && above ||, operators of equal
\* precedence group from the left, and the operators inside a group, an
\* index or a parameter list stay inside it
C20_Precedence == C20Case => result = Parsed("ok", C20Tree.node, "")

-----------------------------------------------------------------------------
(* C21: openers and closers *)

C21Closes(kind) ==
    CASE kind = "EndGroup" -> "StartGroup"
      [] kind = "EndIndex" -> "StartIndex"
      [] kind = "EndParameters" -> "StartParameters"
      [] OTHER -> ""

\* the openers and closers of the tokens from pos on, with the openers that
\* are open so far: "open" when an opener is left open at the end,
\* "unmatched" when a closer does not close the opener that is open on top
RECURSIVE C21Scan(_, _, _)
C21Scan(tokens, pos, open) ==
    IF pos > Len(tokens) THEN (IF open = <<>> THEN "balanced" ELSE "open")
    ELSE IF tokens[pos].Kind \in {"StartGroup", "StartIndex", "StartParameters"}
    THEN C21Scan(tokens, pos + 1, Append(open, tokens[pos].Kind))
    ELSE IF C21Closes(tokens[pos].Kind) # ""
    THEN IF open # <<>> /\ open[Len(open)] = C21Closes(tokens[pos].Kind)
         THEN C21Scan(tokens, pos + 1, Front(open, 1))
         ELSE "unmatched"
    ELSE C21Scan(tokens, pos + 1, open)

\* the parser after all tokens were read and the operators were drained
RECURSIVE C21Fed(_, _, _)
C21Fed(tokens, pos, p) ==
    IF p.err # "" THEN p
    ELSE IF pos > Len(tokens) THEN popAll(p)
    ELSE C21Fed(tokens, pos + 1, parseToken(p, tokens[pos]))

C21Case == pc = "parsed" /\ C21Scan(left, 1, <<>>) # "balanced"

\* C21: Parse returns an error when a group, an index or a parameter list
\* is open at the end of the input or a closer has no opener of its kind,
\* and returns a tree only when one value is left after the operators were
\* drained
C21_Unbalanced ==
    /\ C21Case => result.st = "error"
    /\ (pc = "parsed" /\ result.st = "ok") =>
            Len(C21Fed(left, 1, Parser(<<>>, <<>>, "")).vals) = 1

-----------------------------------------------------------------------------
(* The template rewriter: templateeval rewriteSubExpression, on the text *)

HasPrefixAt(s, i, p) == i + Len(p) - 1 <= Len(s) /\ SubSeq(s, i, i + Len(p) - 1) = p

exprOpen == <<"$", "{", "{">>
exprClose == <<"}", "}">>

\* the place of the }} that ends the expression which starts at i: a '
\* opens or closes a string, and a doubled ' inside a string closes and
\* opens it again; 0 when the text ends before, -1 when it ends in a string
RECURSIVE bodyEnd(_, _, _)
bodyEnd(s, i, inString) ==
    IF i > Len(s) THEN (IF inString THEN -1 ELSE 0)
    ELSE IF s[i] = "'" THEN bodyEnd(s, i + 1, ~inString)
    ELSE IF ~inString /\ HasPrefixAt(s, i, exprClose) THEN i
    ELSE bodyEnd(s, i + 1, inString)

RECURSIVE TrimLeft(_)
TrimLeft(s) == IF s # <<>> /\ Head(s) = " " THEN TrimLeft(Tail(s)) ELSE s

RECURSIVE TrimRight(_)
TrimRight(s) == IF s # <<>> /\ s[Len(s)] = " " THEN TrimRight(Front(s, 1)) ELSE s

TrimSpace(s) == TrimRight(TrimLeft(s))

\* what the scan has collected: the format string, the expression bodies
\* and whether literal text was seen
Collected(st, format, exprs, literal) ==
    [st |-> st, format |-> format, exprs |-> exprs, literal |-> literal]

\* steps 1 and 2: literal text is copied with each ' doubled, and the i-th
\* expression leaves the slot {i} and its body
RECURSIVE collect(_, _, _)
collect(s, i, c) ==
    IF i > Len(s) THEN c
    ELSE IF HasPrefixAt(s, i, exprOpen)
    THEN LET end == bodyEnd(s, i + 3, FALSE)
         IN  IF end = -1 THEN [c EXCEPT !.st = "unclosed string"]
             ELSE IF end = 0 THEN [c EXCEPT !.st = "unclosed expression"]
             ELSE collect(s, end + 2,
                          Collected("ok", c.format \o <<"{">> \o Digits(Len(c.exprs)) \o <<"}">>,
                                    Append(c.exprs, TrimSpace(SubSeq(s, i + 3, end - 1))),
                                    c.literal))
    ELSE collect(s, i + 1,
                 Collected("ok", c.format \o (IF s[i] = "'" THEN <<"'", "'">> ELSE <<s[i]>>),
                           c.exprs, TRUE))

RECURSIVE formatArgs(_)
formatArgs(exprs) ==
    IF exprs = <<>> THEN <<>> ELSE <<",", " ">> \o Head(exprs) \o formatArgs(Tail(exprs))

formatCall(format, exprs) ==
    <<"f", "o", "r", "m", "a", "t", "(", "'">> \o format \o <<"'">> \o formatArgs(exprs) \o <<")">>

Rewritten(st, out, isExpr) == [st |-> st, out |-> out, isExpr |-> isExpr]

\* what a rewriter that formats only when it is forced to would return
RewriteUnforced(s, forceFormat) ==
    LET c == collect(s, 1, Collected("ok", <<>>, <<>>, FALSE))
    IN  IF c.st # "ok" THEN Rewritten(c.st, <<>>, FALSE)
        ELSE IF c.exprs = <<>> THEN Rewritten("ok", s, FALSE)
        ELSE IF Len(c.exprs) = 1 /\ ~forceFormat
        THEN Rewritten("ok", c.exprs[1], TRUE)
        ELSE Rewritten("ok", formatCall(c.format, c.exprs), TRUE)

\* steps 3 to 5
RewriteSubExpression(s, forceFormat) ==
    LET c == collect(s, 1, Collected("ok", <<>>, <<>>, FALSE))
    IN  IF c.st # "ok" THEN Rewritten(c.st, <<>>, FALSE)
        ELSE IF c.exprs = <<>> THEN Rewritten("ok", s, FALSE)
        ELSE IF Len(c.exprs) = 1 /\ ~c.literal /\ ~forceFormat
        THEN Rewritten("ok", c.exprs[1], TRUE)
        ELSE Rewritten("ok", formatCall(c.format, c.exprs), TRUE)

-----------------------------------------------------------------------------
(* Specification SpecRewrite: rewriteSubExpression with and without
   forceFormat on one text *)

\* most pieces of a text
MaxPieces == 5

Pieces == {<<"a">>, <<"'">>, <<" ">>, exprOpen, exprClose, <<"{">>}

RECURSIVE Joined(_)
Joined(pieces) == IF pieces = <<>> THEN <<>> ELSE Head(pieces) \o Joined(Tail(pieces))

\* texts with two expressions
LongTexts ==
    {Joined(<<exprOpen, <<"a">>, exprClose, mid, exprOpen, <<"'", "}", "}", "'">>, exprClose>>)
        : mid \in {<<>>, <<"a">>, <<"'">>}}

RewriteTexts == {Joined(p) : p \in SeqsUpTo(Pieces, MaxPieces)} \cup LongTexts

InitRewrite ==
    /\ pc = "rewrite"
    /\ left \in RewriteTexts
    /\ result = NoResult
    /\ outcome = NoResult
    /\ right = Idle /\ equal = Idle /\ root = Idle /\ ctx = Idle
    /\ doc = Idle /\ schemaNode = Idle /\ evaluator = Idle /\ before = Idle
    /\ checkedExpr = Idle /\ checkNode = Idle /\ checkErrors = Idle

\* rewriteSubExpression(left, forceFormat); result keeps what the call
\* without forceFormat returned and outcome what the call with it returned
RewriteCall(forceFormat) ==
    /\ pc = "rewrite"
    /\ IF forceFormat
       THEN /\ outcome = NoResult
            /\ outcome' = RewriteSubExpression(left, TRUE)
            /\ result' = result
            /\ pc' = IF result = NoResult THEN "rewrite" ELSE "rewritten"
       ELSE /\ result = NoResult
            /\ result' = RewriteSubExpression(left, FALSE)
            /\ outcome' = outcome
            /\ pc' = IF outcome = NoResult THEN "rewrite" ELSE "rewritten"
    /\ UNCHANGED <<left, right, equal, root, ctx, doc, schemaNode, evaluator,
                   before, checkedExpr, checkNode, checkErrors>>

NextRewrite == \E forceFormat \in BOOLEAN : RewriteCall(forceFormat)

SpecRewrite == InitRewrite /\ [][NextRewrite]_vars

-----------------------------------------------------------------------------
(* C22: the rewritten text *)

\* the first place from i on where p stands, 0 when there is none
C22Find(s, i, p) ==
    IF \E j \in i..Len(s) : HasPrefixAt(s, j, p)
    THEN CHOOSE j \in i..Len(s) :
            HasPrefixAt(s, j, p) /\ \A k \in i..(j - 1) : ~HasPrefixAt(s, k, p)
    ELSE 0

\* the first }} from i on that has an even number of ' before it
C22Close(s, i) ==
    LET closes == {j \in i..Len(s) :
                      /\ HasPrefixAt(s, j, exprClose)
                      /\ Cardinality({k \in i..(j - 1) : s[k] = "'"}) % 2 = 0}
    IN  IF closes = {} THEN 0 ELSE CHOOSE j \in closes : \A k \in closes : j <= k

C22Part(kind, text) == [kind |-> kind, text |-> text]

\* the text from i on as literal parts and expression parts; an expression
\* that is not closed gives a part "open"
RECURSIVE C22Parts(_, _)
C22Parts(s, i) ==
    LET open == C22Find(s, i, exprOpen)
        close == C22Close(s, open + 3)
        literal(to) == IF to < i THEN <<>> ELSE <<C22Part("literal", SubSeq(s, i, to))>>
    IN  IF open = 0 THEN literal(Len(s))
        ELSE IF close = 0 THEN literal(open - 1) \o <<C22Part("open", <<>>)>>
        ELSE literal(open - 1) \o <<C22Part("expr", SubSeq(s, open + 3, close - 1))>>
                \o C22Parts(s, close + 2)

C22Count(parts, kind) == Cardinality({i \in 1..Len(parts) : parts[i].kind = kind})

\* the format string: literal parts with ' doubled, {i} for the i-th
\* expression
RECURSIVE C22Format(_, _)
C22Format(parts, slot) ==
    IF parts = <<>> THEN <<>>
    ELSE IF Head(parts).kind = "expr"
    THEN <<"{">> \o Digits(slot) \o <<"}">> \o C22Format(Tail(parts), slot + 1)
    ELSE Joined([i \in 1..Len(Head(parts).text) |->
                    IF Head(parts).text[i] = "'" THEN <<"'", "'">> ELSE <<Head(parts).text[i]>>])
            \o C22Format(Tail(parts), slot)

RECURSIVE C22Args(_)
C22Args(parts) ==
    IF parts = <<>> THEN <<>>
    ELSE IF Head(parts).kind = "expr"
    THEN <<",", " ">> \o TrimSpace(Head(parts).text) \o C22Args(Tail(parts))
    ELSE C22Args(Tail(parts))

C22Expected(parts) ==
    <<"f", "o", "r", "m", "a", "t", "(", "'">> \o C22Format(parts, 0) \o <<"'">>
        \o C22Args(parts) \o <<")">>

\* both calls have returned, and every ${{ of the text is closed
C22Case == pc = "rewritten" /\ C22Count(C22Parts(left, 1), "open") = 0

\* C22: a text without ${{ ... }} comes back unchanged and is no
\* expression; a text with at least one ${{ ... }} and at least one
\* literal character comes back as format('<literal>', e0, e1, ...) with
\* the slot {i} where the i-th expression stood and its body as the i-th
\* argument, and forceFormat makes no difference to it
C22_Rewrite ==
    C22Case =>
        LET parts == C22Parts(left, 1)
        IN  /\ C22Count(parts, "expr") = 0 =>
                    /\ result = Rewritten("ok", left, FALSE)
                    /\ outcome = result
            /\ (C22Count(parts, "expr") >= 1 /\ C22Count(parts, "literal") >= 1) =>
                    /\ result = Rewritten("ok", C22Expected(parts), TRUE)
                    /\ outcome = result

\* two expressions around a literal text were rewritten
C22_Witness ==
    /\ C22Case
    /\ C22Count(C22Parts(left, 1), "expr") = 2
    /\ C22Count(C22Parts(left, 1), "literal") = 1
    /\ result.st = "ok" /\ result.isExpr
    /\ outcome = result

-----------------------------------------------------------------------------
(* C24: one expression, one result *)

\* an expression without the literal NaN has been evaluated (what an index
\* NaN selects depends on the machine, not on the evaluation)
C24Case ==
    /\ pc = "done"
    /\ \A i \in 1..Len(visitNode(root)) :
            visitNode(root)[i].type = "value" => visitNode(root)[i].Value # NaN

\* C24: any two evaluations of an expression in a context return the same
\* result: the lookup of a property and the values that .* enumerates do
\* not depend on the order in which the map is iterated
C24_Deterministic ==
    C24Case =>
        \A other \in Evaluate(ctx, root) :
            /\ other.st = result.st
            /\ other.st = "ok" => other.val = result.val

-----------------------------------------------------------------------------
(* The status functions: pkg/exprparser success() and failure() *)

\* a job of the workflow: the ids it needs and its result
Job(needs, res) == [Needs |-> needs, Result |-> res]

\* the needs of a job that were collected, or the end of the program when
\* the calls never return
Needs(st, needs) == [st |-> st, needs |-> needs]

\* getNeedsTransitive: the needs of the job, then for each of them, in
\* turn, its own transitive needs. open holds the jobs whose call has not
\* returned: a job that is reached again from inside its own call is
\* reached again from that call as well, without end, and the Go runtime
\* ends the program when the stack is used up
RECURSIVE getNeedsTransitive(_, _, _)
getNeedsTransitive(jobs, job, open) ==
    LET needs == jobs[job].Needs
        parent(i) == getNeedsTransitive(jobs, needs[i], open \cup {job})
    IN  IF job \in open THEN Needs("stack overflow", <<>>)
        ELSE IF \E i \in 1..Len(needs) : parent(i).st # "ok"
        THEN Needs("stack overflow", <<>>)
        ELSE Needs("ok", needs \o Joined([i \in 1..Len(needs) |-> parent(i).needs]))

Status(st, val) == [st |-> st, val |-> val]

\* jobSuccess
jobSuccess(config) ==
    LET jobNeeds == getNeedsTransitive(config.Jobs, config.Job, {})
    IN  IF jobNeeds.st # "ok" THEN Status(jobNeeds.st, FALSE)
        ELSE Status("ok", \A i \in 1..Len(jobNeeds.needs) :
                             config.Jobs[jobNeeds.needs[i]].Result = "success")

\* jobFailure
jobFailure(config) ==
    LET jobNeeds == getNeedsTransitive(config.Jobs, config.Job, {})
    IN  IF jobNeeds.st # "ok" THEN Status(jobNeeds.st, FALSE)
        ELSE Status("ok", \E i \in 1..Len(jobNeeds.needs) :
                             config.Jobs[jobNeeds.needs[i]].Result = "failure")

stepSuccess(env) == Status("ok", env.Status = "success")

stepFailure(env) == Status("ok", env.Status = "failure")

\* the functions success and failure that Evaluate registers
statusFunction(name, config, env) ==
    IF config.Context = "job"
    THEN (IF name = "success" THEN jobSuccess(config) ELSE jobFailure(config))
    ELSE IF config.Context = "step"
    THEN (IF name = "success" THEN stepSuccess(env) ELSE stepFailure(env))
    ELSE Status("error", FALSE)

-----------------------------------------------------------------------------
(* Specification SpecStatus: success() and failure() of one job *)

\* most needs of a job
MaxNeeds == 2

JobIds == {"a", "b", "c"}

Results == {"success", "failure", "cancelled"}

NeedLists ==
    {s \in SeqsUpTo(JobIds, MaxNeeds) : \A i, j \in 1..Len(s) : s[i] = s[j] => i = j}

\* the workflows: job a is the one that runs and has no result yet
Workflows ==
    {[id \in JobIds |-> Job(needs[id], IF id = "a" THEN "" ELSE res[id])]
        : needs \in [JobIds -> NeedLists], res \in [JobIds -> Results]}

StatusConfigs ==
    {[Context |-> "job", Jobs |-> w, Job |-> "a"] : w \in Workflows}
        \cup {[Context |-> c, Jobs |-> [id \in JobIds |-> Job(<<>>, "success")], Job |-> "a"]
                 : c \in {"step", "workflow"}}

InitStatus ==
    /\ pc = "status"
    /\ ctx \in StatusConfigs
    /\ evaluator \in {[Status |-> s] : s \in Results}
    /\ ctx.Context = "job" => evaluator.Status = "success"
    /\ result = NoResult
    /\ outcome = NoResult
    /\ left = Idle /\ right = Idle /\ equal = Idle /\ root = Idle
    /\ doc = Idle /\ schemaNode = Idle /\ before = Idle
    /\ checkedExpr = Idle /\ checkNode = Idle /\ checkErrors = Idle

\* the call of success() or failure() in an expression of the job; result
\* keeps what success() returned and outcome what failure() returned
StatusCall(name) ==
    /\ pc = "status"
    /\ IF name = "success"
       THEN /\ result = NoResult
            /\ result' = statusFunction(name, ctx, evaluator)
            /\ outcome' = outcome
            /\ pc' = IF outcome = NoResult THEN "status" ELSE "answered"
       ELSE /\ outcome = NoResult
            /\ outcome' = statusFunction(name, ctx, evaluator)
            /\ result' = result
            /\ pc' = IF result = NoResult THEN "status" ELSE "answered"
    /\ UNCHANGED <<left, right, equal, root, ctx, doc, schemaNode, evaluator,
                   before, checkedExpr, checkNode, checkErrors>>

NextStatus == \E name \in {"success", "failure"} : StatusCall(name)

SpecStatus == InitStatus /\ [][NextStatus]_vars

-----------------------------------------------------------------------------
(* C25: success() and failure() in the job context *)

\* the jobs that are reached from job through needs in at most n steps
RECURSIVE C25Reached(_, _, _)
C25Reached(jobs, from, n) ==
    IF n = 0 THEN {}
    ELSE LET direct == UNION {{jobs[j].Needs[i] : i \in 1..Len(jobs[j].Needs)} : j \in from}
         IN  direct \cup C25Reached(jobs, direct, n - 1)

C25Needed == C25Reached(ctx.Jobs, {ctx.Job}, Cardinality(JobIds))

C25Case == pc = "answered" /\ ctx.Context = "job"

\* C25: in the job context success() is true exactly when every job that
\* is reached through needs has the result success, failure() is true
\* exactly when one of them has the result failure, the two are never both
\* true, and both return for every needs graph
C25_Needs ==
    C25Case =>
        /\ result = Status("ok", \A j \in C25Needed : ctx.Jobs[j].Result = "success")
        /\ outcome = Status("ok", \E j \in C25Needed : ctx.Jobs[j].Result = "failure")
        /\ ~(result.val /\ outcome.val)

-----------------------------------------------------------------------------
(* C26: Parse returns *)

C26Case == pc = "parsed"

\* C26: Parse returns a tree or an error value for every input; an
\* operator that finds too few operands, at the end of the input or while
\* operators are drained for the next one, gives an error and no runtime
\* failure
C26_Returns == C26Case => result.st \in {"ok", "error"}

-----------------------------------------------------------------------------
(* C27: Format comes to an end *)

C27Case == pc = "formatted"

\* C27: Format returns for every format string and every list of
\* arguments: no pass of its loop leaves the place of the scan where it was
\* or behind
C27_Terminates == C27Case => result.st # "loop"

-----------------------------------------------------------------------------
(* The lexer on the text: Lexer.Next *)

\* unicode.IsSpace, on the characters of the model
IsSpace(c) == c = " "

testTokenBoundary(c) ==
    c \in {"(", "[", ")", "]", ",", ".", "!", ">", "<", "=", "&", "|"} \/ IsSpace(c)

\* Token; Value is Nil where the lexer sets none
LexToken(kind, raw, value, index) ==
    [Kind |-> kind, Raw |-> raw, Value |-> value, Index |-> index]

\* Lexer; last is the kind of the last token, "" for none
LexerState(expr, index, last, stack) ==
    [expr |-> expr, index |-> index, last |-> last, stack |-> stack]

\* what a step of the lexer gives: the token and the lexer after it
Lexed1(tok, l) == [tok |-> tok, l |-> l]

\* Lexer.createToken for the lexer l, whose index is behind the text read
lexCreateToken(l, kind, raw) ==
    IF ~checkLastToken(l.last, kind, raw)
    THEN Lexed1(LexToken("Unexpected", raw, Nil, l.index), l)
    ELSE Lexed1(LexToken(kind, raw, Nil, l.index),
                [l EXCEPT !.last = kind,
                          !.stack =
                              IF kind \in {"StartGroup", "StartIndex", "StartParameters"}
                              THEN Append(l.stack, kind)
                              ELSE IF kind \in {"EndGroup", "EndIndex", "EndParameters"}
                                      /\ l.stack # <<>>
                              THEN Front(l.stack, 1)
                              ELSE l.stack])

\* tok.Value = value, on the token that createToken gave
WithValue(lexed, value) == [lexed EXCEPT !.tok.Value = value]

\* the value of a digit in a base up to 16, -1 for any other character
DigitOf(c) ==
    LET digits == <<"0", "1", "2", "3", "4", "5", "6", "7", "8", "9",
                    "a", "b", "c", "d", "e", "f">>
    IN  IF \E d \in 1..16 : digits[d] = c THEN (CHOOSE d \in 1..16 : digits[d] = c) - 1 ELSE -1

RECURSIVE ValueIn(_, _, _)
ValueIn(s, base, acc) ==
    IF s = <<>> THEN acc ELSE ValueIn(Tail(s), base, acc * base + DigitOf(Head(s)))

\* strconv.ParseInt(raw, 0, 32) of a text that starts with 0x or 0o
ParseIntPrefixed(raw) ==
    LET base == IF raw[2] = "x" THEN 16 ELSE 8
        digits == SubSeq(raw, 3, Len(raw))
    IN  IF /\ digits # <<>>
           /\ \A i \in 1..Len(digits) : DigitOf(digits[i]) >= 0 /\ DigitOf(digits[i]) < base
           /\ Len(digits) <= 8
           /\ ValueIn(digits, base, 0) <= MaxInt32
        THEN [ok |-> TRUE, val |-> Num(ValueIn(digits, base, 0))]
        ELSE [ok |-> FALSE, val |-> Nil]

\* a float64 with a fraction: units / 10^places, without zeros at the end
RECURSIVE Decimal(_, _)
Decimal(units, places) ==
    IF places > 0 /\ units % 10 = 0 THEN Decimal(units \div 10, places - 1)
    ELSE IF places = 0 THEN Num(units)
    ELSE [k |-> "num", nan |-> FALSE, n |-> units, places |-> places]

Infinity(sign) == [k |-> "num", nan |-> FALSE, n |-> 0, inf |-> sign]

\* strconv.ParseFloat(raw, 64) on the texts of the model: an optional
\* sign, then digits with at most one period among them, or one of the
\* words for infinity and NaN in any case
strconvParseFloat(raw) ==
    LET signed == raw # <<>> /\ raw[1] \in {"+", "-"}
        sign == IF signed /\ raw[1] = "-" THEN -1 ELSE 1
        body == IF signed THEN Tail(raw) ELSE raw
        word == [i \in 1..Len(body) |-> FoldChar(body[i])]
        periods == {i \in 1..Len(body) : body[i] = "."}
        digits == SelectSeq(body, LAMBDA c : c # ".")
        places == IF periods = {} THEN 0 ELSE Len(body) - (CHOOSE i \in periods : TRUE)
    IN  IF word \in {<<"i", "n", "f">>, <<"i", "n", "f", "i", "n", "i", "t", "y">>}
        THEN [ok |-> TRUE, val |-> Infinity(sign)]
        ELSE IF word = <<"n", "a", "n">> THEN [ok |-> TRUE, val |-> NaN]
        ELSE IF /\ digits # <<>>
                /\ \A i \in 1..Len(digits) : IsDigit(digits[i])
                /\ Cardinality(periods) <= 1
        THEN [ok |-> TRUE, val |-> Decimal(sign * ValueIn(digits, 10, 0), places)]
        ELSE [ok |-> FALSE, val |-> Nil]

\* the first place from index on where the scan of readNumber stops
RECURSIVE numberEnd(_, _)
numberEnd(expr, index) ==
    IF index < Len(expr) /\ ~(testTokenBoundary(ByteAt(expr, index)) /\ ByteAt(expr, index) # ".")
    THEN numberEnd(expr, index + 1)
    ELSE index

\* Lexer.readNumber: a text that starts with 0x or 0o and is no integer
\* goes through createToken a second time, and a text that is no number
\* keeps itself as the value
readNumber(l) ==
    LET end == numberEnd(l.expr, l.index)
        raw == SubSeq(l.expr, l.index + 1, end)
        read == [l EXCEPT !.index = end]
        prefixed == Len(raw) > 2 /\ SubSeq(raw, 1, 2) \in {<<"0", "x">>, <<"0", "o">>}
        first == lexCreateToken(read, "Number", raw)
        float == strconvParseFloat(raw)
        val == IF float.ok THEN float.val ELSE Str(raw)
    IN  IF prefixed /\ ParseIntPrefixed(raw).ok
        THEN WithValue(first, ParseIntPrefixed(raw).val)
        ELSE WithValue(lexCreateToken(IF prefixed THEN first.l ELSE read, "Number", raw), val)

\* the scan of readString from index on: the text between the quotes with
\* '' read as ', the place behind the string, and whether it was closed
RECURSIVE stringScan(_, _, _)
stringScan(expr, index, sb) ==
    IF index >= Len(expr) THEN [sb |-> sb, index |-> index, closed |-> FALSE]
    ELSE IF ByteAt(expr, index) = "'"
    THEN IF index + 1 < Len(expr) /\ ByteAt(expr, index + 1) = "'"
         THEN stringScan(expr, index + 2, Append(sb, "'"))
         ELSE [sb |-> sb, index |-> index + 1, closed |-> TRUE]
    ELSE stringScan(expr, index + 1, Append(sb, ByteAt(expr, index)))

\* Lexer.readString
readString(l) ==
    LET scan == stringScan(l.expr, l.index + 1, <<>>)
        raw == SubSeq(l.expr, l.index + 1, scan.index)
        made == lexCreateToken([l EXCEPT !.index = scan.index], "String", raw)
    IN  IF scan.closed THEN WithValue(made, Str(scan.sb))
        ELSE [tok |-> [made.tok EXCEPT !.Kind = "Unexpected"],
              l |-> [made.l EXCEPT !.last = IF made.tok.Kind = "String" THEN "Unexpected" ELSE @]]

\* Lexer.readOperator
readOperator(l) ==
    LET start == l.index
        two == SubSeq(l.expr, start + 1, start + 2)
    IN  IF start + 1 < Len(l.expr)
           /\ two \in {<<"!", "=">>, <<">", "=">>, <<"<", "=">>, <<"=", "=">>,
                       <<"&", "&">>, <<"|", "|">>}
        THEN lexCreateToken([l EXCEPT !.index = start + 2], "LogicalOperator", two)
        ELSE IF ByteAt(l.expr, start) \in {"!", ">", "<"}
        THEN lexCreateToken([l EXCEPT !.index = start + 1], "LogicalOperator",
                            <<ByteAt(l.expr, start)>>)
        ELSE lexCreateToken([l EXCEPT !.index = start + 1], "Unexpected",
                            <<ByteAt(l.expr, start)>>)

RECURSIVE keywordEnd(_, _)
keywordEnd(expr, index) ==
    IF /\ index < Len(expr)
       /\ ~IsSpace(ByteAt(expr, index))
       /\ ByteAt(expr, index) \notin {"(", ")", "[", "]", ",", ".", "!", "<", ">", "=", "&", "|", "*"}
    THEN keywordEnd(expr, index + 1)
    ELSE index

\* Lexer.readKeyword
readKeyword(l) ==
    LET end == keywordEnd(l.expr, l.index)
        raw == SubSeq(l.expr, l.index + 1, end)
        read == [l EXCEPT !.index = end]
    IN  IF l.last = "Dereference" THEN lexCreateToken(read, "PropertyName", raw)
        ELSE IF raw = <<"t", "r", "u", "e">>
        THEN WithValue(lexCreateToken(read, "Boolean", raw), Bool(TRUE))
        ELSE IF raw = <<"f", "a", "l", "s", "e">>
        THEN WithValue(lexCreateToken(read, "Boolean", raw), Bool(FALSE))
        ELSE IF raw = <<"n", "u", "l", "l">> THEN lexCreateToken(read, "Null", raw)
        ELSE IF raw = <<"N", "a", "N">> THEN WithValue(lexCreateToken(read, "Number", raw), NaN)
        ELSE IF raw = <<"I", "n", "f", "i", "n", "i", "t", "y">>
        THEN WithValue(lexCreateToken(read, "Number", raw), Infinity(1))
        ELSE IF end < Len(l.expr) /\ ByteAt(l.expr, end) = "("
        THEN lexCreateToken(read, "Function", raw)
        ELSE lexCreateToken(read, "NamedValue", raw)

RECURSIVE skipSpace(_, _)
skipSpace(expr, index) ==
    IF index < Len(expr) /\ IsSpace(ByteAt(expr, index)) THEN skipSpace(expr, index + 1)
    ELSE index

\* Lexer.Next with flags 0, for a lexer that is not at the end of the text
lexNext(lexer) ==
    LET l == [lexer EXCEPT !.index = skipSpace(lexer.expr, lexer.index)]
        c == ByteAt(l.expr, l.index)
        one == [l EXCEPT !.index = l.index + 1]
    IN  CASE c = "(" ->
                IF l.last = "Function" THEN lexCreateToken(one, "StartParameters", <<c>>)
                ELSE lexCreateToken(one, "StartGroup", <<c>>)
          [] c = "[" -> lexCreateToken(one, "StartIndex", <<c>>)
          [] c = ")" ->
                IF l.stack # <<>> /\ l.stack[Len(l.stack)] = "StartParameters"
                THEN lexCreateToken(one, "EndParameters", <<c>>)
                ELSE lexCreateToken(one, "EndGroup", <<c>>)
          [] c = "]" -> lexCreateToken(one, "EndIndex", <<c>>)
          [] c = "," -> lexCreateToken(one, "Separator", <<c>>)
          [] c = "*" -> lexCreateToken(one, "Wildcard", <<c>>)
          [] c = "'" -> readString(l)
          [] c \in {"!", ">", "<", "=", "&", "|"} -> readOperator(l)
          [] c = "." ->
                IF l.last \in {"", "Separator", "StartGroup", "StartIndex", "StartParameters",
                               "LogicalOperator"}
                THEN readNumber(l)
                ELSE lexCreateToken(one, "Dereference", <<c>>)
          [] c \in {"-", "+"} \/ IsDigit(c) -> readNumber(l)
          [] OTHER -> readKeyword(l)

\* Next returns nil: only white space is left
AtEnd(l) == skipSpace(l.expr, l.index) >= Len(l.expr)

-----------------------------------------------------------------------------
(* Specification SpecLex: the tokens of a text, as Parse collects them *)

\* longest text
MaxExprLen == 4

LexChars == {"a", "1", ".", "-", "(", "'", " ", "="}

\* the numbers and words of the lexer's tests, and longer texts
LongExprs ==
    {<<"0", "x", "3", "4">>, <<"0", "o", "3", "4">>, <<"0", "x", "x">>, <<"0", "o", "8">>,
     <<"N", "a", "N">>, <<"I", "n", "f", "i", "n", "i", "t", "y">>,
     <<"-", "I", "n", "f", "i", "n", "i", "t", "y">>, <<"2", ".", "5">>, <<"+", "1">>,
     <<"1", ".", "2", ".", "3">>, <<"a", "[", "1", "]", " ", "=", "=", " ", "t", "r", "u", "e">>,
     <<"f", "(", "a", ".", "*", ",", " ", "'", "b", "'", ")">>,
     <<"a", " ", "&", "&", " ", "!", "n", "u", "l", "l", " ", ")">>}

LexTexts == SeqsUpTo(LexChars, MaxExprLen) \cup LongExprs

InitLex ==
    /\ pc = "lex"
    /\ left \in LexTexts
    /\ evaluator = LexerState(left, 0, "", <<>>)
    /\ result = <<>>
    /\ right = Idle /\ equal = Idle /\ root = Idle /\ ctx = Idle
    /\ doc = Idle /\ schemaNode = Idle /\ outcome = Idle /\ before = Idle
    /\ checkedExpr = Idle /\ checkNode = Idle /\ checkErrors = Idle

\* initWithLexer, a pass of the loop with a token: it is kept, and an
\* unexpected one ends the loop with an error
NextToken ==
    /\ pc = "lex"
    /\ ~AtEnd(evaluator)
    /\ result' = Append(result, lexNext(evaluator).tok)
    /\ evaluator' = lexNext(evaluator).l
    /\ pc' = IF lexNext(evaluator).tok.Kind = "Unexpected" THEN "unexpected" ELSE "lex"
    /\ UNCHANGED <<left, right, equal, root, ctx, doc, schemaNode, outcome,
                   before, checkedExpr, checkNode, checkErrors>>

\* initWithLexer, the pass in which Next returns nil
EndOfText ==
    /\ pc = "lex"
    /\ AtEnd(evaluator)
    /\ pc' = "lexed"
    /\ UNCHANGED <<left, right, equal, root, ctx, result, doc, schemaNode, evaluator, outcome,
                   before, checkedExpr, checkNode, checkErrors>>

NextLex == NextToken \/ EndOfText

SpecLex == InitLex /\ [][NextLex]_vars

-----------------------------------------------------------------------------
(* C29: number tokens *)

C29Case == pc \in {"lex", "lexed", "unexpected"} /\ result # <<>>

\* C29: every token of kind number carries a number as its value; a text
\* that starts like a number and is none is given as an unexpected token
C29_Numbers ==
    C29Case =>
        \A i \in 1..Len(result) : result[i].Kind = "Number" => result[i].Value.k = "num"

-----------------------------------------------------------------------------
(* C30: the place of a token *)

\* where the i-th token starts: behind the white space that follows the
\* token before it
RECURSIVE C30Start(_)
C30Start(i) ==
    IF i = 1 THEN skipSpace(left, 0)
    ELSE skipSpace(left, C30Start(i - 1) + Len(result[i - 1].Raw))

C30Case == pc \in {"lex", "lexed", "unexpected"} /\ result # <<>>

\* C30: the Index of every token is the offset, counted from 0, of its
\* first character in the text; the place Parse reports for the first
\* unexpected token is the Index of that token
C30_Index == C30Case => \A i \in 1..Len(result) : result[i].Index = C30Start(i)

-----------------------------------------------------------------------------
(* Node.checkExpression on the text of a scalar: the `${{ }}` parts are   *)
(* found in the text, lexed and parsed, and then checked.                 *)

\* the raw text of an operator or of a bracket, as the parser compares it
RawText(raw) ==
    CASE raw = <<"!">> -> "!"
      [] raw = <<"<">> -> "<"
      [] raw = <<">">> -> ">"
      [] raw = <<"!", "=">> -> "!="
      [] raw = <<"<", "=">> -> "<="
      [] raw = <<">", "=">> -> ">="
      [] raw = <<"=", "=">> -> "=="
      [] raw = <<"&", "&">> -> "&&"
      [] raw = <<"|", "|">> -> "||"
      [] raw = <<"(">> -> "("
      [] raw = <<")">> -> ")"
      [] raw = <<"[">> -> "["
      [] raw = <<"]">> -> "]"
      [] raw = <<",">> -> ","
      [] raw = <<".">> -> "."
      [] OTHER -> "*"

\* the token the parser reads: the Value of a literal, the Raw of a name
ParserToken(tok) ==
    IF tok.Kind \in {"Number", "String", "Boolean", "Null"} THEN Token(tok.Kind, tok.Value)
    ELSE IF tok.Kind \in {"NamedValue", "PropertyName", "Wildcard", "Function"}
    THEN Token(tok.Kind, tok.Raw)
    ELSE Token(tok.Kind, RawText(tok.Raw))

\* Parser.initWithLexer: the tokens up to the end of the text, or the
\* error of the first unexpected token
RECURSIVE initWithLexer(_, _)
initWithLexer(l, tokens) ==
    IF AtEnd(l) THEN [err |-> FALSE, tokens |-> tokens]
    ELSE IF lexNext(l).tok.Kind = "Unexpected" THEN [err |-> TRUE, tokens |-> tokens]
    ELSE initWithLexer(lexNext(l).l, Append(tokens, ParserToken(lexNext(l).tok)))

\* exprparser.Parse of a text
ParseText(expr) ==
    LET lexed == initWithLexer(LexerState(expr, 0, "", <<>>), <<>>)
    IN  IF lexed.err THEN Parsed("error", Nil, "unexpected token")
        ELSE Parse(lexed.tokens)

\* strings.Index: the offset of the first p in s, -1 for none
StringsIndex(s, p) ==
    IF \E i \in 1..Len(s) : HasPrefixAt(s, i, p)
    THEN (CHOOSE i \in 1..Len(s) : HasPrefixAt(s, i, p)
                                   /\ \A k \in 1..(i - 1) : ~HasPrefixAt(s, k, p)) - 1
    ELSE -1

\* exprEnd, from offset i on
RECURSIVE exprEndFrom(_, _, _)
exprEndFrom(expr, i, inQuotes) ==
    IF i >= Len(expr) THEN -1
    ELSE IF ByteAt(expr, i) = "'" THEN exprEndFrom(expr, i + 1, ~inQuotes)
    ELSE IF ~inQuotes /\ i + 1 < Len(expr) /\ SubSeq(expr, i + 1, i + 2) = exprClose THEN i
    ELSE exprEndFrom(expr, i + 1, inQuotes)

exprEnd(expr) == exprEndFrom(expr, 0, FALSE)

\* what Node.checkExpression gives: st is "ok" with the two results, or
\* "panic" for a run that ends in a run-time panic
Checked(st, isExpr, err) == [st |-> st, isExpr |-> isExpr, err |-> err]

\* the loop of Node.checkExpression over the rest val of the text
RECURSIVE checkExpressionFrom(_, _, _, _)
checkExpressionFrom(s, val, hadExpr, err) ==
    IF StringsIndex(val, exprOpen) = -1 THEN Checked("ok", hadExpr, err)
    ELSE LET rest == SubSeq(val, StringsIndex(val, exprOpen) + 4, Len(val))
             j == exprEnd(rest)
         IN  IF j < 0 THEN Checked("panic", TRUE, err)
             ELSE LET parsed == ParseText(SubSeq(rest, 1, j))
                  IN  IF parsed.st = "panic" THEN Checked("panic", TRUE, err)
                      ELSE IF parsed.st = "error"
                      THEN checkExpressionFrom(s, rest, TRUE,
                              ErrorsJoin(err, ErrSingle(SchemaValidationError(
                                  "Fatal", "failed to parse", <<>>, Nil))))
                      ELSE LET cerr == checkSingleExpression(s, parsed.node)
                           IN  checkExpressionFrom(s, SubSeq(rest, j + 3, Len(rest)), TRUE,
                                  IF cerr = <<>> THEN err
                                  ELSE ErrorsJoin(err, ErrSingle(SchemaValidationError(
                                          "Fatal", "expression", <<>>, [joined |-> cerr]))))

\* Node.checkExpression on the text of a scalar
checkExpressionText(s, val) ==
    IF s.RestrictEval THEN Checked("ok", FALSE, Nil)
    ELSE checkExpressionFrom(s, val, FALSE, Nil)

-----------------------------------------------------------------------------
(* Specification SpecCheckText: the check of the scalars of a document *)

ScalarPieces == {<<"g">>, <<"'">>, <<" ">>, <<"!">>, <<"(">>, exprOpen, exprClose}

\* scalars with more than one expression
LongScalars ==
    {exprOpen \o <<" ", "g", " ">> \o exprClose \o <<"-">> \o exprOpen \o <<"u">> \o exprClose,
     exprOpen \o <<"'", "}", "}", "'">> \o exprClose,
     exprOpen \o <<"g", " ", "g">> \o exprClose \o exprOpen \o <<"g">> \o exprClose,
     exprOpen \o <<"g", ".", "a", " ", "=", "=", " ", "1">> \o exprClose}

ScalarTexts == {Joined(p) : p \in SeqsUpTo(ScalarPieces, MaxPieces)} \cup LongScalars

InitCheckText ==
    /\ pc = "checktext"
    /\ left \in ScalarTexts
    /\ checkNode \in {SchemaNode(<<>>, "string", c, FALSE, r)
                        : c \in {<<>>, <<ContextVariable(nameG)>>}, r \in BOOLEAN}
    /\ result = NoResult
    /\ right = Idle /\ equal = Idle /\ root = Idle /\ ctx = Idle
    /\ doc = Idle /\ schemaNode = Idle /\ evaluator = Idle /\ outcome = Idle
    /\ before = Idle /\ checkedExpr = Idle /\ checkErrors = Idle

\* Node.checkExpression(node) for the scalar node of the text
CheckExpression ==
    /\ pc = "checktext"
    /\ result' = checkExpressionText(checkNode, left)
    /\ pc' = "textchecked"
    /\ UNCHANGED <<left, right, equal, root, ctx, doc, schemaNode, evaluator, outcome,
                   before, checkedExpr, checkNode, checkErrors>>

NextCheckText == CheckExpression

SpecCheckText == InitCheckText /\ [][NextCheckText]_vars

-----------------------------------------------------------------------------
(* C28: the check of a scalar returns its problems as errors *)

C28Case ==
    /\ pc = "textchecked"
    /\ ~checkNode.RestrictEval
    /\ StringsIndex(left, exprOpen) # -1

\* C28: the check of a scalar whose text holds `${{` returns, and a body
\* that has no closing `}}` or does not parse is reported as an error
C28_Reports ==
    C28Case =>
        /\ result.st = "ok"
        /\ result.isExpr
        /\ (exprEnd(SubSeq(left, StringsIndex(left, exprOpen) + 4, Len(left))) < 0
                => result.err # Nil)

====
